---- MODULE Spec2Model ----
(***************************************************************************)
(* Verification model of the retrieval & classification engine of          *)
(* exam_manager.                                                           *)
(*                                                                         *)
(* Part 1 (Spec): the batch job runner, app/services/ai_classifier.py      *)
(*   AsyncBatchProcessor, with the committed ClassificationJob row (db),   *)
(*   the worker's SQLAlchemy session copy of the row (sess), the           *)
(*   ThreadPoolExecutor work queue and the status polling route.           *)
(* Part 2 (JudgeSpec): the LLM judge, GeminiClassifier.classify_single     *)
(*   with _normalize_evidence and the tenacity retry wrapper.              *)
(* Part 3 (FeatureSpec, ClassifySpec): auto_confirm_v2 of                  *)
(*   app/services/retrieval_features.py and the two ways one question is   *)
(*   classified (batch worker, classification_pipeline).                   *)
(* Part 4 (ApplySpec, ApplyFailSpec): apply_classification_results on the *)
(*   question and evidence rows of the database, returning and raising.    *)
(* Part 5 (CacheSpec, CacheRaceSpec, CacheSaveSpec): ClassifierResultCache *)
(*   used from one thread and from two, and its file.                      *)
(* Part 6 (IndexSpec): the EmbeddingIndex singleton used from two threads. *)
(* Part 7 (RrfSpec, ScopeSpec, ExpandSpec, FtsSpec): pure functions of the *)
(*   retrieval path: rank fusion, the job's lecture scope and candidate    *)
(*   list, parent-text assembly, the FTS match string.                     *)
(* Part 8 (QuerySpec): get_query_payload and the QuestionQuery table.      *)
(*                                                                         *)
(* Modelling assumptions: db.session.commit() returns, except where a      *)
(* specification says otherwise; None is NULL (-1); strings are sequences  *)
(* of one-character strings.                                               *)
(***************************************************************************)
EXTENDS Integers, Sequences, FiniteSets, TLC

VARIABLES db, sess, qids, queue, pc, idx, results, choices_bound, clock, lastPoll,
          jpc, candidates, attempt, llm, decision,
          fpc, features, delta, max_bm25_rank, auto_confirm,
          ppc,
          lectures, question, matches, last_apply, apply_session,
          cache_file, cache_loaded, cache_data, cache_now, cache_sets, cache_got,
          cache_lock, tpc, top, tbuf, cache_fs,
          index_lock, index_instance, index_initialized, index_model_name, index_dim,
          index_embeddings, index_meta, index_reads, ipc, iargs, ibuf, iobs,
          call_pc, call_args, call_result,
          question_queries, qpc, qargs, qgen, qret, qcalls

jobVars == <<db, sess, qids, queue, pc, idx, results, choices_bound, clock, lastPoll>>
judgeVars == <<jpc, candidates, attempt, llm, decision>>
featVars == <<fpc, features, delta, max_bm25_rank, auto_confirm>>
pipeVars == <<ppc>>
applyVars == <<lectures, question, matches, last_apply, apply_session>>
cacheVars == <<cache_file, cache_loaded, cache_data, cache_now, cache_sets, cache_got,
               cache_lock, tpc, top, tbuf, cache_fs>>
indexVars == <<index_lock, index_instance, index_initialized, index_model_name, index_dim,
               index_embeddings, index_meta, index_reads, ipc, iargs, ibuf, iobs>>
\* one call of a pure function: its arguments and what it returned
callVars == <<call_pc, call_args, call_result>>
\* the QuestionQuery table and the threads calling get_query_payload
queryVars == <<question_queries, qpc, qargs, qgen, qret, qcalls>>
\* what the actions of one component leave alone
notJobVars == <<judgeVars, featVars, pipeVars, applyVars, cacheVars, indexVars, callVars, queryVars>>
notJudgeVars == <<jobVars, featVars, pipeVars, applyVars, cacheVars, indexVars, callVars, queryVars>>
notFeatVars == <<jobVars, judgeVars, pipeVars, applyVars, cacheVars, indexVars, callVars, queryVars>>
notApplyVars == <<jobVars, judgeVars, featVars, pipeVars, cacheVars, indexVars, callVars, queryVars>>
notCacheVars == <<jobVars, judgeVars, featVars, pipeVars, applyVars, indexVars, callVars, queryVars>>
notIndexVars == <<jobVars, judgeVars, featVars, pipeVars, applyVars, cacheVars, callVars, queryVars>>
notCallVars == <<jobVars, judgeVars, featVars, pipeVars, applyVars, cacheVars, indexVars, queryVars>>
notQueryVars == <<jobVars, judgeVars, featVars, pipeVars, applyVars, cacheVars, indexVars,
                  callVars>>
\* what classifying one question (judge, features and pipeline) leaves alone
notClassifyVars == <<jobVars, applyVars, cacheVars, indexVars, callVars, queryVars>>
vars == <<db, sess, qids, queue, pc, idx, results, choices_bound, clock, lastPoll,
          jpc, candidates, attempt, llm, decision,
          fpc, features, delta, max_bm25_rank, auto_confirm,
          ppc,
          lectures, question, matches, last_apply, apply_session,
          cache_file, cache_loaded, cache_data, cache_now, cache_sets, cache_got,
          cache_lock, tpc, top, tbuf, cache_fs,
          index_lock, index_instance, index_initialized, index_model_name, index_dim,
          index_embeddings, index_meta, index_reads, ipc, iargs, ibuf, iobs,
          call_pc, call_args, call_result,
          question_queries, qpc, qargs, qgen, qret, qcalls>>

NULL == -1

\* ------------------------------------------------------------------ bounds
\* jobs started and questions per job in the worker specification (Spec)
MaxJobs == 1
MaxQuestions == 2
\* jobs started in the pool specification (PoolSpec)
MaxPoolJobs == 3
MaxLLMEvidence == 2
\* largest embed_margin and delta (in units of 0.05) and largest max_bm25_rank
MaxMargin == 2
MaxRank == 2
\* set() calls made on one ClassifierResultCache
MaxSets == 2
\* longest lexical and dense hit list given to the rank fusion
MaxListLen == 3
\* save() calls made by the threads that share one ClassifierResultCache
MaxSaves == 2
\* get_query_payload calls made by the threads
MaxCalls == 3

JobIds == 1..(IF MaxJobs > MaxPoolJobs THEN MaxJobs ELSE MaxPoolJobs)
QuestionIds == {1, 2}
\* the question lists submitted in the pool specification
PoolQuestionLists == {<<>>, <<1>>}

RECURSIVE SeqsUpTo(_, _)
SeqsUpTo(S, n) ==
    IF n = 0 THEN {<<>>}
    ELSE LET shorter == SeqsUpTo(S, n - 1)
         IN shorter \cup {Append(s, x) : s \in {t \in shorter : Len(t) = n - 1}, x \in S}

\* ------------------------------------------------------- ClassificationJob
STATUS_PENDING == "pending"
STATUS_PROCESSING == "processing"
STATUS_COMPLETED == "completed"
STATUS_FAILED == "failed"

\* a job id for which no row has been inserted yet
NoRow ==
    [status |-> "none", total_count |-> 0, processed_count |-> 0, success_count |-> 0,
     failed_count |-> 0, error_message |-> NULL, results |-> <<>>, completed_at |-> NULL]

\* ClassificationJob(status=STATUS_PENDING, total_count=len(question_ids)) with the
\* column defaults and result_json = build_job_payload(request_meta, [])
NewJobRow(question_ids) ==
    [status |-> STATUS_PENDING, total_count |-> Len(question_ids), processed_count |-> 0,
     success_count |-> 0, failed_count |-> 0, error_message |-> NULL,
     results |-> <<>>, completed_at |-> NULL]

\* job.status = ClassificationJob.STATUS_PROCESSING            (_process_job, line 506)
ProcessingRow(row) == [row EXCEPT !.status = STATUS_PROCESSING]

MissingQuestionRow_Mutant(row) == [row EXCEPT !.failed_count = @ + 1]

\* if not question: job.failed_count += 1; job.processed_count += 1  (lines 539-541)
MissingQuestionRow(row) ==
    [row EXCEPT !.failed_count = @ + 1, !.processed_count = @ + 1]

\* job.success_count += 1                                          (line 595)
SuccessRow(row) == [row EXCEPT !.success_count = @ + 1]

ErrorRow_Mutant(row) == [row EXCEPT !.success_count = @ + 1]

\* job.failed_count += 1                                           (line 622)
ErrorRow(row) == [row EXCEPT !.failed_count = @ + 1]

\* job.processed_count += 1                                        (line 624)
ProcessedRow(row) == [row EXCEPT !.processed_count = @ + 1]

CompletedRow_Mutant(row, res, now) ==
    [row EXCEPT !.status = STATUS_COMPLETED, !.results = res]

\* status = completed, result_json = payload(results), completed_at = utcnow()
CompletedRow(row, res, now) ==
    [row EXCEPT !.status = STATUS_COMPLETED, !.results = res, !.completed_at = now]

\* status = failed, error_message = str(e), result_json = payload(results),
\* completed_at = utcnow()
FailedRow(row, res, now) ==
    [row EXCEPT !.status = STATUS_FAILED, !.error_message = 1, !.results = res,
                !.completed_at = now]

\* the decisions classify_single hands back to the worker (part 2 models how they
\* are computed); only the fields the job payload is judged on are kept
JobDecisions == {[lecture_id |-> 7, no_match |-> FALSE]}

\* result = classifier.classify_single(...); result['question_id'] = qid
SuccessResult(qid, d) ==
    [question_id |-> qid, lecture_id |-> d.lecture_id, no_match |-> d.no_match,
     error |-> FALSE]

\* the dict appended by the per-question except handler
ErrorResult(qid) ==
    [question_id |-> qid, lecture_id |-> NULL, no_match |-> TRUE, error |-> TRUE]

AppendResult_Mutant(res, r) == <<r>> \o res

\* results.append(...)
AppendResult(res, r) == Append(res, r)

\* ---------------------------------------------------------------- executor
\* _executor = ThreadPoolExecutor(max_workers=2)
MaxWorkers == 2

WorkerStates == {"refresh", "scope", "init", "loop"}
Running == {j \in JobIds : pc[j] \in WorkerStates}

SlotFree_Mutant(running) == Cardinality(running) <= MaxWorkers

\* a pool thread is free to take the next work item
SlotFree(running) == Cardinality(running) < MaxWorkers

\* ------------------------------------------------------------------ actions
\* AsyncBatchProcessor.start_classification_job: insert the row, commit, submit
Start(question_ids, maxJobs) ==
    /\ \E j \in 1..maxJobs :
        /\ db[j].status = "none"
        /\ \A k \in JobIds : k < j => db[k].status # "none"
        /\ db' = [db EXCEPT ![j] = NewJobRow(question_ids)]
        /\ qids' = [qids EXCEPT ![j] = question_ids]
        /\ queue' = Append(queue, j)
        /\ pc' = [pc EXCEPT ![j] = "queued"]
    /\ UNCHANGED <<sess, idx, results, choices_bound, clock, lastPoll>>
    /\ UNCHANGED notJobVars

\* a pool thread takes the oldest work item and runs _process_job up to the first
\* commit: job = query.get(job_id); status = processing; commit
Begin(j) ==
    /\ queue # <<>>
    /\ j = Head(queue)
    /\ SlotFree(Running)
    /\ queue' = Tail(queue)
    /\ sess' = [sess EXCEPT ![j] = ProcessingRow(db[j])]
    /\ db' = [db EXCEPT ![j] = ProcessingRow(db[j])]
    /\ pc' = [pc EXCEPT ![j] = "refresh"]
    /\ UNCHANGED <<qids, idx, results, choices_bound, clock, lastPoll>>
    /\ UNCHANGED notJobVars

\* retriever.refresh_cache(), outside the try block: an exception leaves _process_job
RefreshCache(j, ok) ==
    /\ pc[j] = "refresh"
    /\ pc' = [pc EXCEPT ![j] = IF ok THEN "scope" ELSE "crashed"]
    /\ UNCHANGED <<db, sess, qids, queue, idx, results, choices_bound, clock, lastPoll>>
    /\ UNCHANGED notJobVars

\* scope resolution (int(...) conversions, resolve_lecture_ids), outside the try
\* block; then results = []
ResolveScope(j, ok) ==
    /\ pc[j] = "scope"
    /\ pc' = [pc EXCEPT ![j] = IF ok THEN "init" ELSE "crashed"]
    /\ results' = [results EXCEPT ![j] = <<>>]
    /\ UNCHANGED <<db, sess, qids, queue, idx, choices_bound, clock, lastPoll>>
    /\ UNCHANGED notJobVars

\* the outer except handler followed by the final db.session.commit()
FailJob(j) ==
    /\ sess' = [sess EXCEPT ![j] = FailedRow(sess[j], results[j], clock)]
    /\ db' = [db EXCEPT ![j] = FailedRow(sess[j], results[j], clock)]
    /\ clock' = clock + 1
    /\ pc' = [pc EXCEPT ![j] = "done"]

\* classifier = GeminiClassifier(), first statement of the try block
InitClassifier(j, ok) ==
    /\ pc[j] = "init"
    /\ IF ok
       THEN /\ pc' = [pc EXCEPT ![j] = "loop"]
            /\ UNCHANGED <<db, sess, clock>>
       ELSE FailJob(j)
    /\ UNCHANGED <<qids, queue, idx, results, choices_bound, lastPoll>>
    /\ UNCHANGED notJobVars

QuestionOutcomes == {"missing", "ok", "raise", "choices_raise", "handler_raise"}

\* one iteration of `for qid in question_ids`
ProcessQuestion(j, outcome, d) ==
    /\ pc[j] = "loop"
    /\ idx[j] < Len(qids[j])
    /\ LET qid == qids[j][idx[j] + 1] IN
       CASE outcome = "missing" ->
              \* counters change in the session only: `continue` skips the commit
              /\ sess' = [sess EXCEPT ![j] = MissingQuestionRow(sess[j])]
              /\ idx' = [idx EXCEPT ![j] = @ + 1]
              /\ UNCHANGED <<db, results, choices_bound, clock, pc>>
         [] outcome = "ok" ->
              /\ results' = [results EXCEPT ![j] = AppendResult(@, SuccessResult(qid, d))]
              /\ sess' = [sess EXCEPT ![j] = ProcessedRow(SuccessRow(sess[j]))]
              /\ db' = [db EXCEPT ![j] = ProcessedRow(SuccessRow(sess[j]))]
              /\ idx' = [idx EXCEPT ![j] = @ + 1]
              /\ choices_bound' = [choices_bound EXCEPT ![j] = TRUE]
              /\ UNCHANGED <<clock, pc>>
         [] outcome = "raise" ->
              \* retrieval, the judge or a later statement of the try body raises
              /\ results' = [results EXCEPT ![j] = AppendResult(@, ErrorResult(qid))]
              /\ sess' = [sess EXCEPT ![j] = ProcessedRow(ErrorRow(sess[j]))]
              /\ db' = [db EXCEPT ![j] = ProcessedRow(ErrorRow(sess[j]))]
              /\ idx' = [idx EXCEPT ![j] = @ + 1]
              /\ choices_bound' = [choices_bound EXCEPT ![j] = TRUE]
              /\ UNCHANGED <<clock, pc>>
         [] outcome = "choices_raise" ->
              \* the choices query (first statement of the try body) raises: the
              \* handler reads `choices`, unbound unless an earlier iteration set it
              IF choices_bound[j]
              THEN /\ results' = [results EXCEPT ![j] = AppendResult(@, ErrorResult(qid))]
                   /\ sess' = [sess EXCEPT ![j] = ProcessedRow(ErrorRow(sess[j]))]
                   /\ db' = [db EXCEPT ![j] = ProcessedRow(ErrorRow(sess[j]))]
                   /\ idx' = [idx EXCEPT ![j] = @ + 1]
                   /\ UNCHANGED <<choices_bound, clock, pc>>
              ELSE /\ FailJob(j)
                   /\ UNCHANGED <<idx, results, choices_bound>>
         [] outcome = "handler_raise" ->
              \* the try body raises and the handler raises too while it builds the
              \* error dict (lazy loads of question.exam, question.lecture)
              /\ FailJob(j)
              /\ UNCHANGED <<idx, results, choices_bound>>
    /\ UNCHANGED <<qids, queue, lastPoll>>
    /\ UNCHANGED notJobVars

\* after the loop: status = completed, final payload, completed_at, commit
Complete(j) ==
    /\ pc[j] = "loop"
    /\ idx[j] = Len(qids[j])
    /\ sess' = [sess EXCEPT ![j] = CompletedRow(sess[j], results[j], clock)]
    /\ db' = [db EXCEPT ![j] = CompletedRow(sess[j], results[j], clock)]
    /\ clock' = clock + 1
    /\ pc' = [pc EXCEPT ![j] = "done"]
    /\ UNCHANGED <<qids, queue, idx, results, choices_bound, lastPoll>>
    /\ UNCHANGED notJobVars

\* get_classification_status: reads the committed row
Poll(j) ==
    /\ db[j].status # "none"
    /\ lastPoll' = [lastPoll EXCEPT ![j] = db[j].processed_count]
    /\ UNCHANGED <<db, sess, qids, queue, pc, idx, results, choices_bound, clock>>
    /\ UNCHANGED notJobVars


\* auto_confirm_v2 has not been applied; no retrieval features computed
NoFeatures ==
    [bm25_top1_chunk_id |-> NULL, hybrid_top1_chunk_id |-> NULL,
     hybrid_top1_lecture_id |-> NULL, embed_margin |-> NULL,
     hybrid_top1_bm25_rank |-> NULL]

FeatureIdle ==
    /\ fpc = "idle"
    /\ features = NoFeatures
    /\ delta = 0
    /\ max_bm25_rank = 0
    /\ auto_confirm = FALSE

\* no question is being classified
PipeIdle == ppc = "idle"

\* the questions and lectures of the database before any classification is applied:
\* Question column defaults, no evidence rows
ApplyQuestionIds == {1, 2}
LectureIds == {7, 9}

NewQuestion ==
    [lecture_id |-> NULL, is_classified |-> FALSE, classification_status |-> "manual"]

NoApply ==
    [job_id |-> NULL, question_ids |-> <<>>, apply_mode |-> "", applied_count |-> 0,
     committed |-> <<>>, repeated |-> FALSE]

\* the SQLAlchemy session holds no uncommitted change
NoSession == [open |-> FALSE, question |-> <<>>, matches |-> <<>>]

ApplyIdle ==
    /\ lectures = LectureIds
    /\ question = [q \in ApplyQuestionIds |-> NewQuestion]
    /\ matches = <<>>
    /\ last_apply = NoApply
    /\ apply_session = NoSession

\* ---- ClassifierResultCache: the keys, results and threads of the cache model
\* str(question_id), config_hash (a sha1 hexdigest, build_config_hash) and model_name
\* the (question_id, config_hash, model_name) arguments used by the callers
CacheArgs == {<<1, <<"a">>, <<"g">>>>, <<1, <<"a">>, <<"g", ":", "b">>>>, <<2, <<"b">>, <<"g">>>>}
CacheResults == {"A", "B"}
CacheThreads == {1, 2}

Digits == <<"0", "1", "2", "3", "4", "5", "6", "7", "8", "9">>

RECURSIVE IntStr(_)
\* str(n) of a non-negative int
IntStr(n) == IF n < 10 THEN <<Digits[n + 1]>> ELSE IntStr(n \div 10) \o <<Digits[(n % 10) + 1]>>

CacheKey_Mutant(question_id, config_hash, model_name) ==
    IntStr(question_id) \o <<":">> \o config_hash

\* key = f"{question_id}:{config_hash}:{model_name}"
CacheKey(question_id, config_hash, model_name) ==
    IntStr(question_id) \o <<":">> \o config_hash \o <<":">> \o model_name

KeyOf(a) == CacheKey(a[1], a[2], a[3])

\* every key string the dict can hold in the model
CacheKeyStrings == {KeyOf(a) : a \in CacheArgs}

\* dict.get(key) is None
Absent == [result |-> "", cached_at |-> NULL]

\* {"result": result, "cached_at": datetime.utcnow().isoformat()}
CacheEntry(result, now) == [result |-> result, cached_at |-> now]

\* self._data = {}: a dict is a function from key strings to entries or Absent
EmptyDict == [k \in CacheKeyStrings |-> Absent]

\* the cache file: missing, unreadable / not JSON, or the JSON a save() wrote
NoFile == [exists |-> FALSE, valid |-> FALSE, data |-> EmptyDict]
CorruptFile == [exists |-> TRUE, valid |-> FALSE, data |-> EmptyDict]
SavedFile(data) == [exists |-> TRUE, valid |-> TRUE, data |-> data]

\* no get() has returned for these arguments since the last set() on them
NotGot == [result |-> "", cached_at |-> -2]

NoOp == [op |-> "none", args |-> <<>>, result |-> ""]

\* ---- the two paths save() touches.  A file's content is the sequence of the blocks
\* written into it; json.dump through the buffered handle reaches the file in two
\* writes (one when the buffer fills, one at close).  A block records the save() call
\* that wrote it, its place in that call's output and the dict entries as of the write.
NoBlocks == [exists |-> FALSE, blocks |-> <<>>]

\* bytes never written, before the offset of a later write
Hole == [save |-> NULL, part |-> 0, data |-> EmptyDict]

\* the whole output of save() call n
Snapshot(n, data) ==
    [exists |-> TRUE,
     blocks |-> <<[save |-> n, part |-> 1, data |-> data], [save |-> n, part |-> 2, data |-> data]>>]

\* json.load accepts the content: the complete output of one json.dump
IsSnapshot(blocks) ==
    /\ Len(blocks) = 2
    /\ blocks[1].save = blocks[2].save
    /\ blocks[1].part = 1
    /\ blocks[2].part = 2

\* the content a cache file stands for
BlocksOf(file) ==
    IF ~file.exists THEN NoBlocks
    ELSE IF file.valid THEN Snapshot(0, file.data)
    ELSE [exists |-> TRUE, blocks |-> <<Hole>>]

\* what _load() finds in a content (the entries as of the last write)
AsFile(content) ==
    IF ~content.exists THEN NoFile
    ELSE IF IsSnapshot(content.blocks) THEN SavedFile(content.blocks[2].data)
    ELSE CorruptFile

\* a thread has no open handle
Closed == [at |-> "none", offset |-> 0, save |-> NULL, size |-> 0]

\* temp path, cache path, every thread's handle, save() calls started
FsOf(file) ==
    [tmp |-> NoBlocks, path |-> BlocksOf(file), fd |-> [t \in CacheThreads |-> Closed],
     saves |-> 0]

\* ClassifierResultCache(path).__init__ with no file, no call made
CacheIdle ==
    /\ cache_file = NoFile
    /\ cache_loaded = FALSE
    /\ cache_data = EmptyDict
    /\ cache_now = 1
    /\ cache_sets = <<>>
    /\ cache_got = [a \in CacheArgs |-> NotGot]
    /\ cache_lock = NULL
    /\ tpc = [t \in CacheThreads |-> "idle"]
    /\ top = [t \in CacheThreads |-> NoOp]
    /\ tbuf = [t \in CacheThreads |-> EmptyDict]
    /\ cache_fs = FsOf(NoFile)

\* ---- HyDE payloads: no QuestionQuery row, no call of get_query_payload
QueryThreads == {1, 2}

\* get_query_payload returned None
NoTransformation ==
    [present |-> FALSE, keywords |-> <<>>, lecture_style_query |-> "", negative_keywords |-> <<>>]

NoQueryArgs == [question_id |-> 0, allow_generate |-> FALSE]

\* no call made yet
NoReturn == [call |-> 0, value |-> NoTransformation, llm_called |-> FALSE]

QueryIdle ==
    /\ question_queries = <<>>
    /\ qpc = [t \in QueryThreads |-> "idle"]
    /\ qargs = [t \in QueryThreads |-> NoQueryArgs]
    /\ qgen = [t \in QueryThreads |-> NoTransformation]
    /\ qret = [t \in QueryThreads |-> NoReturn]
    /\ qcalls = 0

\* ---- EmbeddingIndex: the process before any thread has called EmbeddingIndex()
IndexThreads == {1, 2}

\* self._embeddings = None
NoMatrix == [load |-> NULL, len |-> NULL]
\* self._meta = [] as __init__ leaves it
NoMeta == [load |-> NULL, len |-> 0]
\* no load(model_name, dim) call made
NoLoadArgs == [model_name |-> "", dim |-> NULL]
NoObservation == [embeddings |-> NoMatrix, meta |-> NoMeta, seen |-> FALSE]

IndexIdle ==
    /\ index_lock = NULL
    /\ index_instance = FALSE
    /\ index_initialized = "unset"
    /\ index_model_name = ""
    /\ index_dim = NULL
    /\ index_embeddings = NoMatrix
    /\ index_meta = NoMeta
    /\ index_reads = <<>>
    /\ ipc = [t \in IndexThreads |-> "idle"]
    /\ iargs = [t \in IndexThreads |-> NoLoadArgs]
    /\ ibuf = [t \in IndexThreads |-> NoMeta]
    /\ iobs = [t \in IndexThreads |-> NoObservation]

\* no pure function is being applied
CallIdle ==
    /\ call_pc = "idle"
    /\ call_args = <<>>
    /\ call_result = <<>>

\* no classify_single call in progress
JudgeIdle ==
    /\ jpc = "idle"
    /\ candidates = <<>>
    /\ attempt = 0
    /\ llm = [kind |-> "none", lecture_id |-> NULL, no_match |-> "absent",
              confidence |-> NULL, reason |-> "absent", evidence |-> <<>>]
    /\ decision = [lecture_id |-> NULL, confidence |-> 0, reason |-> "", evidence |-> <<>>,
                   no_match |-> FALSE, model_name |-> ""]

\* no job has been started
JobsIdle ==
    /\ db = [j \in JobIds |-> NoRow]
    /\ sess = [j \in JobIds |-> NoRow]
    /\ qids = [j \in JobIds |-> <<>>]
    /\ queue = <<>>
    /\ pc = [j \in JobIds |-> "none"]
    /\ idx = [j \in JobIds |-> 0]
    /\ results = [j \in JobIds |-> <<>>]
    /\ choices_bound = [j \in JobIds |-> FALSE]
    /\ clock = 1
    /\ lastPoll = [j \in JobIds |-> NULL]

Init == JobsIdle /\ JudgeIdle /\ FeatureIdle /\ PipeIdle /\ ApplyIdle /\ CacheIdle /\ IndexIdle /\ CallIdle /\ QueryIdle

Next ==
    \/ \E qs \in SeqsUpTo(QuestionIds, MaxQuestions) : Start(qs, MaxJobs)
    \/ \E j \in JobIds : Begin(j)
    \/ \E j \in JobIds, ok \in BOOLEAN : RefreshCache(j, ok)
    \/ \E j \in JobIds, ok \in BOOLEAN : ResolveScope(j, ok)
    \/ \E j \in JobIds, ok \in BOOLEAN : InitClassifier(j, ok)
    \/ \E j \in JobIds, o \in QuestionOutcomes, d \in JobDecisions : ProcessQuestion(j, o, d)
    \/ \E j \in JobIds : Complete(j)

Spec == Init /\ [][Next]_vars

\* the same program with a client polling the status route
PollNext ==
    \/ \E qs \in SeqsUpTo(QuestionIds, MaxQuestions) : Start(qs, MaxJobs)
    \/ \E j \in JobIds : Begin(j)
    \/ \E j \in JobIds, ok \in BOOLEAN : RefreshCache(j, ok)
    \/ \E j \in JobIds, ok \in BOOLEAN : ResolveScope(j, ok)
    \/ \E j \in JobIds, ok \in BOOLEAN : InitClassifier(j, ok)
    \/ \E j \in JobIds, o \in QuestionOutcomes, d \in JobDecisions : ProcessQuestion(j, o, d)
    \/ \E j \in JobIds : Complete(j)
    \/ \E j \in JobIds : Poll(j)

PollSpec == Init /\ [][PollNext]_vars

\* the same program with more jobs than pool threads and shorter question lists
PoolNext ==
    \/ \E qs \in PoolQuestionLists : Start(qs, MaxPoolJobs)
    \/ \E j \in JobIds : Begin(j)
    \/ \E j \in JobIds, ok \in BOOLEAN : RefreshCache(j, ok)
    \/ \E j \in JobIds, ok \in BOOLEAN : ResolveScope(j, ok)
    \/ \E j \in JobIds, ok \in BOOLEAN : InitClassifier(j, ok)
    \/ \E j \in JobIds, o \in QuestionOutcomes, d \in JobDecisions : ProcessQuestion(j, o, d)
    \/ \E j \in JobIds : Complete(j)

PoolSpec == Init /\ [][PoolNext]_vars

\* ================================================================ LLM judge
\* strings are sequences of one-character strings
Str_ab == <<"a", "b">>
Str_a == <<"a">>
Str_c == <<"c">>
Str_pad_a == <<" ", "a", " ">>

RECURSIVE LStrip(_)
LStrip(s) == IF s # <<>> /\ Head(s) = " " THEN LStrip(Tail(s)) ELSE s

RECURSIVE RStrip(_)
RStrip(s) == IF s # <<>> /\ s[Len(s)] = " " THEN RStrip(SubSeq(s, 1, Len(s) - 1)) ELSE s

\* str.strip()
Strip(s) == RStrip(LStrip(s))

\* Python's `q in s` on strings
IsSubstring(q, s) ==
    \E i \in 0..(Len(s) - Len(q)) : SubSeq(s, i + 1, i + Len(q)) = q

\* candidate lists as aggregate_candidates builds them: distinct lecture ids, at most
\* three evidence items per lecture with distinct chunk ids and stripped snippets
CandEvidence(chunk_id, page_start, page_end, snippet) ==
    [chunk_id |-> chunk_id, page_start |-> page_start, page_end |-> page_end,
     snippet |-> snippet]

CandidateLists ==
    { <<>>,
      << [id |-> 7, evidence |-> <<CandEvidence(1, 12, 13, Str_ab)>>],
         [id |-> 9, evidence |-> <<CandEvidence(2, NULL, NULL, Str_a)>>] >>,
      << [id |-> 7, evidence |-> <<CandEvidence(1, 12, 13, <<>>),
                                   CandEvidence(2, 14, 14, Str_ab),
                                   CandEvidence(3, 15, 15, Str_a)>>] >>,
      << [id |-> 7, evidence |-> <<CandEvidence(1, 12, 13, <<>>)>>] >> }

\* what the LLM may put into one evidence item; its page numbers differ from every
\* candidate's
LLMPage == 99
LLMItems ==
    [lecture_id : {NULL, 9}, chunk_id : {NULL, 1, 2}, quote : {<<>>, Str_pad_a, Str_c},
     page_start : {LLMPage}, page_end : {LLMPage}]

\* the response of one generate_content call: "raise" when the call (or the
\* conversion of its output, e.g. float(confidence)) raises, "decode_error" when the
\* call itself raises json.JSONDecodeError, "json" when the text parses as a JSON
\* object, "scraped" when json.loads fails and only _fallback_parse_result reads the
\* text (its regular expressions may or may not find each field)
LLMResponses ==
    [kind : {"json"}, lecture_id : {NULL, 5, 7, 9}, no_match : {"absent", "true", "false"},
     confidence : {NULL, 9}, reason : {"llm"}, evidence : SeqsUpTo(LLMItems, MaxLLMEvidence)]
    \cup
    [kind : {"scraped"}, lecture_id : {NULL, 5, 7, 9}, no_match : {"absent", "true", "false"},
     confidence : {NULL, 9}, reason : {"absent", "llm"}, evidence : {<<>>}]
    \cup
    [kind : {"raise", "decode_error"}, lecture_id : {NULL}, no_match : {"absent"},
     confidence : {NULL}, reason : {"absent"}, evidence : {<<>>}]

\* _fallback_parse_result: the scraped fields and the setdefault lines
FallbackParseResult(resp) ==
    [lecture_id |-> resp.lecture_id,
     no_match |-> IF resp.no_match = "absent"
                  THEN (IF resp.lecture_id = NULL THEN "true" ELSE "false")
                  ELSE resp.no_match,
     confidence |-> IF resp.confidence = NULL THEN 0 ELSE resp.confidence,
     reason |-> IF resp.reason = "absent" THEN "" ELSE resp.reason,
     evidence |-> <<>>]

\* json.loads(json_text), or _fallback_parse_result(result_text) when it fails
ParseResult(resp) ==
    IF resp.kind = "json"
    THEN [lecture_id |-> resp.lecture_id, no_match |-> resp.no_match,
          confidence |-> resp.confidence, reason |-> resp.reason,
          evidence |-> resp.evidence]
    ELSE FallbackParseResult(resp)

CandidateIds(cands) == {cands[i].id : i \in 1..Len(cands)}

LectureInCandidates_Mutant(lecture_id, cands) == TRUE

\* lecture_id in valid_ids
LectureInCandidates(lecture_id, cands) == lecture_id \in CandidateIds(cands)

\* next((c for c in candidates if c.get('id') == lecture_id), None): the position of
\* the first candidate with that id, 0 for None
SelectedIndex(lecture_id, cands) ==
    LET hits == {i \in 1..Len(cands) : cands[i].id = lecture_id}
    IN IF hits = {} THEN 0 ELSE CHOOSE i \in hits : \A k \in hits : i <= k

\* candidate_evidence.get(chunk_id): the dict keeps the last item of a chunk id
CandidateItemIndex(selected, chunk_id) ==
    LET hits == {i \in 1..Len(selected.evidence) : selected.evidence[i].chunk_id = chunk_id}
    IN IF hits = {} THEN 0 ELSE CHOOSE i \in hits : \A k \in hits : i >= k

EvidenceItem_Mutant(lecture_id, candidate_item, item, quote) ==
    [lecture_id |-> lecture_id, page_start |-> item.page_start,
     page_end |-> item.page_end, quote |-> quote, chunk_id |-> candidate_item.chunk_id]

\* the dict appended to `cleaned` / `fallback`
EvidenceItem(lecture_id, candidate_item, item, quote) ==
    [lecture_id |-> lecture_id, page_start |-> candidate_item.page_start,
     page_end |-> candidate_item.page_end, quote |-> quote,
     chunk_id |-> candidate_item.chunk_id]

\* one iteration of `for item in evidence_raw`: zero or one cleaned item
CleanOne(lecture_id, selected, item) ==
    IF item.lecture_id # NULL /\ item.lecture_id # lecture_id THEN <<>>
    ELSE IF item.chunk_id = NULL THEN <<>>
    ELSE LET k == CandidateItemIndex(selected, item.chunk_id) IN
         IF k = 0 THEN <<>>
         ELSE LET candidate_item == selected.evidence[k]
                  snippet == candidate_item.snippet
                  quote == Strip(item.quote)
              IN IF quote # <<>> /\ IsSubstring(quote, snippet)
                 THEN <<EvidenceItem(lecture_id, candidate_item, item, quote)>>
                 ELSE IF snippet # <<>>
                 THEN <<EvidenceItem(lecture_id, candidate_item, item, snippet)>>
                 ELSE <<>>

RECURSIVE Cleaned(_, _, _)
Cleaned(lecture_id, selected, evidence_raw) ==
    IF evidence_raw = <<>> THEN <<>>
    ELSE CleanOne(lecture_id, selected, Head(evidence_raw))
         \o Cleaned(lecture_id, selected, Tail(evidence_raw))

RECURSIVE Fallback(_, _)
\* for candidate_item in evidence[:2]: skip empty snippets
Fallback(lecture_id, items) ==
    IF items = <<>> THEN <<>>
    ELSE (IF Head(items).snippet = <<>> THEN <<>>
          ELSE <<EvidenceItem(lecture_id, Head(items), Head(items), Head(items).snippet)>>)
         \o Fallback(lecture_id, Tail(items))

\* GeminiClassifier._normalize_evidence
NormalizeEvidence(lecture_id, cands, evidence_raw) ==
    IF SelectedIndex(lecture_id, cands) = 0 THEN <<>>
    ELSE LET selected == cands[SelectedIndex(lecture_id, cands)]
             cleaned == Cleaned(lecture_id, selected, evidence_raw)
             n == IF Len(selected.evidence) < 2 THEN Len(selected.evidence) ELSE 2
         IN IF cleaned # <<>> THEN cleaned
            ELSE Fallback(lecture_id, SubSeq(selected.evidence, 1, n))

MODEL_NAME == "gemini"

\* the dict returned when `not candidates`
NoCandidatesDecision ==
    [lecture_id |-> NULL, confidence |-> 0, reason |-> "No lecture candidates available.",
     evidence |-> <<>>, no_match |-> TRUE, model_name |-> MODEL_NAME]

\* classify_single from `lecture_id = result.get('lecture_id')` to the return
PostProcess(result, cands) ==
    LET no_match0 == (result.no_match = "true")
        lecture_id0 == IF no_match0 THEN NULL ELSE result.lecture_id
        valid == lecture_id0 = NULL \/ LectureInCandidates(lecture_id0, cands)
        lecture_id == IF valid THEN lecture_id0 ELSE NULL
        no_match == IF valid THEN no_match0 ELSE TRUE
        confidence == IF result.confidence = NULL THEN 0 ELSE result.confidence
        evidence == IF lecture_id # NULL /\ lecture_id # 0 /\ ~no_match
                    THEN NormalizeEvidence(lecture_id, cands, result.evidence)
                    ELSE <<>>
        reason == IF result.reason = "absent" THEN "" ELSE result.reason
    IN [lecture_id |-> lecture_id, confidence |-> confidence, reason |-> reason,
        evidence |-> IF no_match THEN <<>> ELSE evidence, no_match |-> no_match,
        model_name |-> MODEL_NAME]

\* str of the reason built by `except json.JSONDecodeError`, up to the colon
JSONParseErrorReason == "JSON parse error"

\* the dict returned by the `except json.JSONDecodeError` handler of classify_single
ParseErrorDecision ==
    [lecture_id |-> NULL, confidence |-> 0, reason |-> JSONParseErrorReason,
     evidence |-> <<>>, no_match |-> TRUE, model_name |-> MODEL_NAME]

\* @retry(stop=stop_after_attempt(3), ...)
MaxAttempts == 3

\* a caller invokes classify_single(question, candidates)
CallClassifySingle(cands) ==
    /\ jpc = "idle"
    /\ jpc' = "calling"
    /\ candidates' = cands
    /\ UNCHANGED <<attempt, llm, decision>>
    /\ UNCHANGED notJudgeVars

\* `if not candidates`: return without calling the LLM
ReturnNoCandidates ==
    /\ jpc = "calling"
    /\ candidates = <<>>
    /\ decision' = NoCandidatesDecision
    /\ jpc' = "returned"
    /\ UNCHANGED <<candidates, attempt, llm>>
    /\ UNCHANGED notJudgeVars

\* one attempt of the retried body: generate_content, parse, post-process
AttemptLLM(responses) ==
    /\ jpc = "calling"
    /\ candidates # <<>>
    /\ attempt < MaxAttempts
    /\ attempt' = attempt + 1
    /\ \E resp \in responses :
        /\ llm' = resp
        /\ CASE resp.kind = "raise" ->
                  /\ jpc' = IF attempt + 1 = MaxAttempts THEN "raised" ELSE "calling"
                  /\ UNCHANGED decision
             [] resp.kind = "decode_error" ->
                  /\ decision' = ParseErrorDecision
                  /\ jpc' = "returned"
             [] OTHER ->
                  /\ decision' = PostProcess(ParseResult(resp), candidates)
                  /\ jpc' = "returned"
    /\ UNCHANGED candidates
    /\ UNCHANGED notJudgeVars

\* the batch worker (_process_job lines 559-625, question 1 of job 1) takes what
\* classify_single returned or raised: the result or the error dict is appended,
\* success or failed and processed are counted and committed
RecordJudgeResult ==
    /\ jpc \in {"returned", "raised"}
    /\ idx[1] = 0
    /\ idx' = [idx EXCEPT ![1] = 1]
    /\ IF jpc = "returned"
       THEN /\ results' = [results EXCEPT ![1] = AppendResult(@, SuccessResult(1, decision))]
            /\ sess' = [sess EXCEPT ![1] = ProcessedRow(SuccessRow(sess[1]))]
            /\ db' = [db EXCEPT ![1] = ProcessedRow(SuccessRow(sess[1]))]
       ELSE /\ results' = [results EXCEPT ![1] = AppendResult(@, ErrorResult(1))]
            /\ sess' = [sess EXCEPT ![1] = ProcessedRow(ErrorRow(sess[1]))]
            /\ db' = [db EXCEPT ![1] = ProcessedRow(ErrorRow(sess[1]))]
    /\ UNCHANGED <<qids, queue, pc, choices_bound, clock, lastPoll>>
    /\ UNCHANGED notJobVars

JudgeInit == JobsIdle /\ JudgeIdle /\ FeatureIdle /\ PipeIdle /\ ApplyIdle /\ CacheIdle /\ IndexIdle /\ CallIdle /\ QueryIdle

JudgeNext ==
    \/ \E cands \in CandidateLists : CallClassifySingle(cands)
    \/ ReturnNoCandidates
    \/ AttemptLLM(LLMResponses)
    \/ RecordJudgeResult

JudgeSpec == JudgeInit /\ [][JudgeNext]_vars

\* ======================================================= retrieval features
\* chunk ids are LectureChunk primary keys (positive); margins and delta are in
\* units of 0.05
ChunkIds == {1, 2}

\* the lecture a chunk belongs to (LectureChunk.lecture_id)
LectureOf(chunk_id) == IF chunk_id = NULL THEN NULL ELSE IF chunk_id = 1 THEN 7 ELSE 9

\* the fields of build_retrieval_artifacts(...).features that auto_confirm_v2 and
\* the auto-confirm decision read
FeatureSet ==
    {[bm25_top1_chunk_id |-> b, hybrid_top1_chunk_id |-> h,
      hybrid_top1_lecture_id |-> LectureOf(h), embed_margin |-> m,
      hybrid_top1_bm25_rank |-> r] :
        b \in ChunkIds \cup {NULL}, h \in ChunkIds \cup {NULL},
        m \in (0..MaxMargin) \cup {NULL}, r \in (1..(MaxRank + 1)) \cup {NULL}}

AutoConfirmV2_Mutant(f, d, rank) ==
    IF f.bm25_top1_chunk_id = NULL \/ f.hybrid_top1_chunk_id = NULL THEN FALSE
    ELSE IF f.bm25_top1_chunk_id # f.hybrid_top1_chunk_id THEN FALSE
    ELSE IF f.embed_margin = NULL \/ f.embed_margin <= d THEN FALSE
    ELSE IF f.hybrid_top1_bm25_rank = NULL \/ f.hybrid_top1_bm25_rank > rank THEN FALSE
    ELSE TRUE

\* retrieval_features.auto_confirm_v2(features, delta=, max_bm25_rank=)
AutoConfirmV2(f, d, rank) ==
    IF f.bm25_top1_chunk_id = NULL \/ f.hybrid_top1_chunk_id = NULL THEN FALSE
    ELSE IF f.bm25_top1_chunk_id # f.hybrid_top1_chunk_id THEN FALSE
    ELSE IF f.embed_margin = NULL \/ f.embed_margin < d THEN FALSE
    ELSE IF f.hybrid_top1_bm25_rank = NULL \/ f.hybrid_top1_bm25_rank > rank THEN FALSE
    ELSE TRUE

\* a caller holds the arguments of auto_confirm_v2
FeatureInit ==
    /\ JobsIdle /\ JudgeIdle /\ PipeIdle /\ ApplyIdle /\ CacheIdle /\ IndexIdle /\ CallIdle /\ QueryIdle
    /\ fpc = "args"
    /\ features \in FeatureSet
    /\ delta \in 0..MaxMargin
    /\ max_bm25_rank \in 1..MaxRank
    /\ auto_confirm = FALSE

\* auto_confirm = auto_confirm_v2(features, delta=delta, max_bm25_rank=max_bm25_rank)
ApplyAutoConfirm ==
    /\ fpc = "args"
    /\ auto_confirm' = AutoConfirmV2(features, delta, max_bm25_rank)
    /\ fpc' = "returned"
    /\ UNCHANGED <<features, delta, max_bm25_rank>>
    /\ UNCHANGED notFeatVars

FeatureNext == ApplyAutoConfirm

FeatureSpec == FeatureInit /\ [][FeatureNext]_vars

\* ============================================== classifying one question
\* ExperimentConfig defaults: auto_confirm_v2_delta = 0.05 (one unit),
\* auto_confirm_v2_max_bm25_rank = 5
AUTO_CONFIRM_V2_DELTA == 1
AUTO_CONFIRM_V2_MAX_BM25_RANK == 5

\* the features build_retrieval_artifacts can compute for a question: the BM25 rank
\* of the hybrid top-1 chunk is 1 when it is the BM25 top-1 chunk, and undefined
\* when there is no hybrid or no BM25 result
QuestionFeatures ==
    {f \in FeatureSet :
        /\ (f.hybrid_top1_chunk_id = NULL \/ f.bm25_top1_chunk_id = NULL)
              => f.hybrid_top1_bm25_rank = NULL
        /\ (f.hybrid_top1_chunk_id # NULL /\ f.hybrid_top1_chunk_id = f.bm25_top1_chunk_id)
              => f.hybrid_top1_bm25_rank = 1
        /\ (f.hybrid_top1_chunk_id # NULL /\ f.bm25_top1_chunk_id # NULL
                /\ f.hybrid_top1_chunk_id # f.bm25_top1_chunk_id)
              => f.hybrid_top1_bm25_rank # 1}

\* the LLM responses considered when a question is classified: JSON objects without
\* evidence items, and failed calls
PipeResponses == {r \in LLMResponses : r.kind \in {"json", "raise"} /\ r.evidence = <<>>}

\* the batch worker's try body for one question up to the judge call:
\* candidates = retriever.find_candidates(...); classifier.classify_single(question,
\* candidates).  f is what build_retrieval_artifacts yields for the question; the
\* worker does not compute it.
ClassifyQuestion(f, cands) ==
    /\ ppc = "idle"
    /\ jpc = "idle"
    /\ ppc' = "worker"
    /\ features' = f
    /\ jpc' = "calling"
    /\ candidates' = cands
    /\ UNCHANGED <<attempt, llm, decision, fpc, delta, max_bm25_rank, auto_confirm>>
    /\ UNCHANGED notClassifyVars

\* classify_single_question(question, ...) is called: question text built, context made
PipelineCall(f) ==
    /\ ppc = "idle"
    /\ ppc' = "retrieve"
    /\ features' = f
    /\ UNCHANGED <<fpc, delta, max_bm25_rank, auto_confirm>>
    /\ UNCHANGED <<judgeVars, notClassifyVars>>

\* _retrieve_stage: retriever.find_candidates(question_text, top_k=8, question_id=...,
\* lecture_ids=...) raises TypeError, LectureRetriever.find_candidates has no
\* question_id parameter; the exception leaves classify_single_question
RetrieveStage ==
    /\ ppc = "retrieve"
    /\ ppc' = "raised"
    /\ UNCHANGED featVars
    /\ UNCHANGED <<judgeVars, notClassifyVars>>

ClassifyNext ==
    \/ \E f \in QuestionFeatures, cands \in CandidateLists : ClassifyQuestion(f, cands)
    \/ \E f \in QuestionFeatures : PipelineCall(f)
    \/ RetrieveStage
    \/ ReturnNoCandidates
    \/ AttemptLLM(PipeResponses)

ClassifySpec == Init /\ [][ClassifyNext]_vars

\* ================================================= applying a job's results
\* one evidence item of a result, as _normalize_evidence builds it
ResultEvidence(lecture_id, chunk_id, page_start, page_end, quote) ==
    [lecture_id |-> lecture_id, chunk_id |-> chunk_id, page_start |-> page_start,
     page_end |-> page_end, quote |-> quote]

\* one entry of a job payload's results, as _process_job appends it
JobResult(question_id, lecture_id, no_match, confidence, evidence) ==
    [question_id |-> question_id, lecture_id |-> lecture_id, no_match |-> no_match,
     confidence |-> confidence, evidence |-> evidence]

\* parse_job_payload(job.result_json)[1] for the jobs of the database: jobs 1 to 3
\* are finished jobs over questions 1, 2 (and 3, deleted since); any other id has no
\* row or no results
ApplyJobIds == {1, 2, 3, 4}
JobPayload(job_id) ==
    CASE job_id = 1 ->
           << JobResult(1, 7, FALSE, 9, <<ResultEvidence(7, 1, 12, 13, Str_ab),
                                          ResultEvidence(7, 2, NULL, NULL, Str_a)>>),
              JobResult(2, NULL, TRUE, 0, <<>>),
              JobResult(3, 9, FALSE, 9, <<ResultEvidence(9, 3, 14, 14, Str_a)>>) >>
      [] job_id = 2 ->
           << JobResult(1, 9, FALSE, 5, <<ResultEvidence(9, 3, 14, 14, Str_a)>>),
              JobResult(2, 7, FALSE, 9, <<>>) >>
      [] job_id = 3 ->
           << JobResult(1, NULL, FALSE, 5, <<>>),
              JobResult(2, 9, FALSE, 9, <<ResultEvidence(9, 3, 14, 14, Str_pad_a)>>) >>
      [] OTHER -> <<>>

\* LectureChunk.query.get: chunks 1 and 2 exist, chunk 3 was removed by a re-ingest
NoChunk ==
    [found |-> FALSE, lecture_id |-> NULL, material_id |-> NULL, page_start |-> NULL,
     page_end |-> NULL, content |-> <<>>]

ChunkRow(chunk_id) ==
    CASE chunk_id = 1 ->
           [found |-> TRUE, lecture_id |-> 7, material_id |-> 1, page_start |-> 12,
            page_end |-> 13, content |-> Str_ab]
      [] chunk_id = 2 ->
           [found |-> TRUE, lecture_id |-> 7, material_id |-> 1, page_start |-> 20,
            page_end |-> 21, content |-> Str_a]
      [] OTHER -> NoChunk

\* Python's `a or b` on values where None (and 0) are false
Or(a, b) == IF a = NULL \/ a = 0 THEN b ELSE a

\* results_map = {r['question_id']: r for r in results}; results_map.get(qid): the
\* position of the last result of that question, 0 for None
ResultIndex(res, qid) ==
    LET hits == {i \in 1..Len(res) : res[i].question_id = qid}
    IN IF hits = {} THEN 0 ELSE CHOOSE i \in hits : \A k \in hits : i >= k

\* apply_mode = (apply_mode or "all").lower(); anything unknown becomes "all"
ApplyModes == {"all", "only_unclassified", "only_changes", "other"}
NormalMode(apply_mode) ==
    IF apply_mode \in {"all", "only_unclassified", "only_changes"} THEN apply_mode ELSE "all"

\* lecture = Lecture.query.get(lecture_id) if lecture_id else None: NULL for None
LectureGet(lecture_id, existing) ==
    IF lecture_id # NULL /\ lecture_id # 0 /\ lecture_id \in existing THEN lecture_id ELSE NULL

ShouldApply_Mutant(mode, q, lecture) ==
    IF mode = "only_changes" THEN ~(lecture = NULL \/ lecture = q.lecture_id)
    ELSE TRUE

\* should_apply                                                   (lines 714-719)
ShouldApply(mode, q, lecture) ==
    IF mode = "only_unclassified" /\ q.is_classified THEN FALSE
    ELSE IF mode = "only_changes" THEN ~(lecture = NULL \/ lecture = q.lecture_id)
    ELSE TRUE

CommitsAssignment_Mutant(should_apply, lecture, no_match) == should_apply

\* if should_apply and lecture and not no_match                    (line 721)
CommitsAssignment(should_apply, lecture, no_match) ==
    should_apply /\ lecture # NULL /\ ~no_match

\* the advisory update, always stored (lines 698-712): of the columns it writes the
\* row keeps classification_status, the one the assignment also writes
Advised(q, lecture, no_match) ==
    IF lecture # NULL /\ ~no_match
    THEN [q EXCEPT !.classification_status = IF q.is_classified THEN @ ELSE "ai_suggested"]
    ELSE [q EXCEPT !.classification_status = IF q.is_classified THEN @ ELSE "manual"]

\* the assignment                                                  (lines 722-724)
Assigned(q, lecture) ==
    [q EXCEPT !.lecture_id = lecture, !.is_classified = TRUE,
              !.classification_status = "ai_confirmed"]

DeleteMatches_Mutant(ms, qid) == ms

\* QuestionChunkMatch.query.filter_by(question_id=question.id).delete()
DeleteMatches(ms, qid) == SelectSeq(ms, LAMBDA m : m.question_id # qid)

\* snippet = (snippet or '').strip(); cut to 497 characters and '...' above 500
Snippet(text) ==
    LET t == Strip(text)
    IN IF Len(t) > 500 THEN SubSeq(t, 1, 497) \o <<".", ".", ".">> ELSE t

IsPrimary_Mutant(i) == TRUE

\* is_primary=(idx == 0): idx is the position in evidence_list, from 0
IsPrimary(i) == i = 0

\* one iteration of `for idx, evidence in enumerate(evidence_list)`: zero or one row
MatchRow(evidence, i, qid, lecture, confidence, job_id) ==
    LET chunk_id == evidence.chunk_id
        chunk == ChunkRow(chunk_id)
        evidence_lecture_id == Or(evidence.lecture_id, Or(lecture, chunk.lecture_id))
        text == IF evidence.quote # <<>> THEN evidence.quote ELSE chunk.content
    IN IF chunk_id = NULL \/ chunk_id = 0 THEN <<>>
       ELSE IF evidence_lecture_id = NULL \/ evidence_lecture_id = 0 THEN <<>>
       ELSE << [question_id |-> qid, lecture_id |-> evidence_lecture_id,
                chunk_id |-> chunk_id, material_id |-> chunk.material_id,
                page_start |-> Or(evidence.page_start, chunk.page_start),
                page_end |-> Or(evidence.page_end, chunk.page_end),
                snippet |-> Snippet(text), score |-> confidence, source |-> "ai",
                job_id |-> job_id, is_primary |-> IsPrimary(i)] >>

RECURSIVE MatchRows(_, _, _, _, _, _)
\* matches, built from evidence_list[i:]
MatchRows(evidence_list, i, qid, lecture, confidence, job_id) ==
    IF i >= Len(evidence_list) THEN <<>>
    ELSE MatchRow(evidence_list[i + 1], i, qid, lecture, confidence, job_id)
         \o MatchRows(evidence_list, i + 1, qid, lecture, confidence, job_id)

\* the body of `for qid in question_ids` on the session state st
ApplyOne(st, qid, job_id, mode, existing) ==
    LET res == JobPayload(job_id)
        k == ResultIndex(res, qid)
    IN IF k = 0 THEN st
       ELSE IF qid \notin DOMAIN st.question THEN st
       ELSE
         LET result == res[k]
             q == st.question[qid]
             lecture == LectureGet(result.lecture_id, existing)
             no_match == result.no_match
             advised == Advised(q, lecture, no_match)
             should_apply == ShouldApply(mode, advised, lecture)
             commits == CommitsAssignment(should_apply, lecture, no_match)
             q2 == IF commits THEN Assigned(advised, lecture) ELSE advised
             rows == MatchRows(result.evidence, 0, qid, lecture, result.confidence, job_id)
         IN [question |-> [st.question EXCEPT ![qid] = q2],
             matches |-> IF should_apply
                         THEN DeleteMatches(st.matches, qid) \o rows
                         ELSE st.matches,
             applied_count |-> IF commits THEN st.applied_count + 1 ELSE st.applied_count,
             committed |-> IF commits THEN Append(st.committed, qid) ELSE st.committed]

RECURSIVE ApplyLoop(_, _, _, _, _)
ApplyLoop(st, question_ids, job_id, mode, existing) ==
    IF question_ids = <<>> THEN st
    ELSE ApplyLoop(ApplyOne(st, Head(question_ids), job_id, mode, existing),
                   Tail(question_ids), job_id, mode, existing)

\* the session state apply_classification_results commits
ApplyClassificationResults(qs, ms, question_ids, job_id, apply_mode, existing) ==
    LET st0 == [question |-> qs, matches |-> ms, applied_count |-> 0, committed |-> <<>>]
    IN IF JobPayload(job_id) = <<>> THEN st0
       ELSE ApplyLoop(st0, question_ids, job_id, NormalMode(apply_mode), existing)

\* the question id lists a client asks to apply: question 3 has been deleted
ApplyIdLists == {<<1>>, <<2>>, <<1, 2>>, <<1, 1>>, <<3, 1>>}

\* one call apply_classification_results(question_ids, job_id, apply_mode), with its
\* commit
Apply(question_ids, job_id, apply_mode) ==
    LET st == ApplyClassificationResults(question, matches, question_ids, job_id,
                                         apply_mode, lectures)
    IN /\ question' = st.question
       /\ matches' = st.matches
       /\ last_apply' = [job_id |-> job_id, question_ids |-> question_ids,
                         apply_mode |-> apply_mode, applied_count |-> st.applied_count,
                         committed |-> st.committed,
                         repeated |-> last_apply # NoApply]
       /\ UNCHANGED <<lectures, apply_session>>
       /\ UNCHANGED notApplyVars

\* the first call on a database
ApplyFirst(question_ids, job_id, apply_mode) ==
    /\ last_apply = NoApply
    /\ Apply(question_ids, job_id, apply_mode)

\* the same call again, right after the first
ApplyAgain ==
    /\ last_apply # NoApply
    /\ ~last_apply.repeated
    /\ Apply(last_apply.question_ids, last_apply.job_id, last_apply.apply_mode)

\* the Question rows the routes can leave behind: classify, unclassify and
\* update_question set lecture_id and is_classified, apply sets the status
QuestionRows(existing) ==
    [lecture_id : existing \cup {NULL}, is_classified : BOOLEAN,
     classification_status : {"manual", "ai_suggested", "ai_confirmed"}]

\* the evidence rows an earlier apply of job_id has written for question qid
AppliedRows(job_id, qid) ==
    LET res == JobPayload(job_id)
        result == res[ResultIndex(res, qid)]
    IN MatchRows(result.evidence, 0, qid, result.lecture_id, result.confidence, job_id)

\* the database when apply is called: question 1 in any row state, question 2 new,
\* classified by hand or confirmed; each with no evidence rows or those of an
\* earlier apply; a lecture may have been deleted
ApplyInit ==
    /\ JobsIdle /\ JudgeIdle /\ FeatureIdle /\ PipeIdle /\ CacheIdle /\ IndexIdle /\ CallIdle /\ QueryIdle
    /\ lectures \in {LectureIds, {7}, {9}}
    /\ question \in {qs \in [ApplyQuestionIds -> QuestionRows(lectures)] :
                        qs[2] \in {NewQuestion,
                                   [NewQuestion EXCEPT !.lecture_id = 7, !.is_classified = TRUE],
                                   [lecture_id |-> NULL, is_classified |-> TRUE,
                                    classification_status |-> "ai_confirmed"]}}
    /\ matches \in {a \o b : a \in {<<>>, AppliedRows(1, 1), AppliedRows(2, 1)},
                              b \in {<<>>, AppliedRows(3, 2)}}
    /\ last_apply = NoApply
    /\ apply_session = NoSession

ApplyNext ==
    \/ \E ids \in ApplyIdLists, j \in ApplyJobIds, m \in ApplyModes : ApplyFirst(ids, j, m)
    \/ ApplyAgain

ApplySpec == ApplyInit /\ [][ApplyNext]_vars

\* ================================================= classifier result cache
\* app/services/classifier_cache.py, ClassifierResultCache.  CacheSpec: one thread
\* calling get / set / save, each call one action.  CacheRaceSpec: two threads, each
\* making one get or set call, interleaved at the reads and writes of self._loaded
\* and self._data and at the lock.

\* what json.loads(self.path.read_text()) yields, {} on OSError / JSONDecodeError
ParsedFile(file) == IF file.valid THEN file.data ELSE EmptyDict

\* self._data after self._load()
Loaded(loaded, data, file) ==
    IF loaded THEN data
    ELSE IF file.exists THEN ParsedFile(file)
    ELSE data

\* self._data[key] = entry
Store(data, key, entry) == [data EXCEPT ![key] = entry]

\* the readings of datetime.utcnow() a call can see: the clock does not run backwards
Readings(now) == {now, now + 1}

\* cache.get(question_id, config_hash, model_name); the returned entry is kept in
\* cache_got
CacheGet(a) ==
    LET data == Loaded(cache_loaded, cache_data, cache_file)
    IN /\ cache_data' = data
       /\ cache_loaded' = TRUE
       /\ cache_got' = [cache_got EXCEPT ![a] = data[KeyOf(a)]]
       /\ UNCHANGED <<cache_file, cache_now, cache_sets, cache_lock, tpc, top, tbuf>>
       /\ UNCHANGED cache_fs
       /\ UNCHANGED notCacheVars

\* cache.set(question_id, config_hash, model_name, result) at clock reading now;
\* cache_sets is the history of the set() calls
CacheSet(a, result, now) ==
    LET data == Loaded(cache_loaded, cache_data, cache_file)
    IN /\ Len(cache_sets) < MaxSets
       /\ cache_data' = Store(data, KeyOf(a), CacheEntry(result, now))
       /\ cache_loaded' = TRUE
       /\ cache_now' = now
       /\ cache_sets' = Append(cache_sets, [args |-> a, result |-> result, cached_at |-> now])
       /\ cache_got' = [cache_got EXCEPT ![a] = NotGot]
       /\ UNCHANGED <<cache_file, cache_lock, tpc, top, tbuf>>
       /\ UNCHANGED cache_fs
       /\ UNCHANGED notCacheVars

\* cache.save(): the temp file is written in full and then replaces the file
CacheSave ==
    LET data == Loaded(cache_loaded, cache_data, cache_file)
    IN /\ cache_data' = data
       /\ cache_loaded' = TRUE
       /\ cache_file' = SavedFile(data)
       /\ cache_fs' = [cache_fs EXCEPT !.path = Snapshot(0, data)]
       /\ UNCHANGED <<cache_now, cache_sets, cache_got, cache_lock, tpc, top, tbuf>>
       /\ UNCHANGED notCacheVars

\* the files a new ClassifierResultCache can find: none, an unreadable one, or one
\* saved by an earlier run
CacheFiles ==
    {NoFile, CorruptFile, SavedFile(EmptyDict)}
        \cup {SavedFile(Store(EmptyDict, KeyOf(a), CacheEntry(r, 0))) :
                  a \in CacheArgs, r \in CacheResults}

CacheInit ==
    /\ JobsIdle /\ JudgeIdle /\ FeatureIdle /\ PipeIdle /\ ApplyIdle /\ IndexIdle /\ CallIdle /\ QueryIdle
    /\ cache_file \in CacheFiles
    /\ cache_fs = FsOf(cache_file)
    /\ cache_loaded = FALSE
    /\ cache_data = EmptyDict
    /\ cache_now = 1
    /\ cache_sets = <<>>
    /\ cache_got = [a \in CacheArgs |-> NotGot]
    /\ cache_lock = NULL
    /\ tpc = [t \in CacheThreads |-> "idle"]
    /\ top = [t \in CacheThreads |-> NoOp]
    /\ tbuf = [t \in CacheThreads |-> EmptyDict]

CacheNext ==
    \/ \E a \in CacheArgs : CacheGet(a)
    \/ \E a \in CacheArgs, r \in CacheResults, now \in Readings(cache_now) : CacheSet(a, r, now)
    \/ CacheSave

CacheSpec == CacheInit /\ [][CacheNext]_vars

\* ---- two threads on one cache
CacheOps ==
    {[op |-> "get", args |-> a, result |-> ""] : a \in CacheArgs}
        \cup {[op |-> "set", args |-> a, result |-> r] : a \in CacheArgs, r \in CacheResults}

\* thread t enters get() or set() and so self._load()
TCall(t, op) ==
    /\ tpc[t] = "idle"
    /\ top' = [top EXCEPT ![t] = op]
    /\ tpc' = [tpc EXCEPT ![t] = "check"]
    /\ UNCHANGED <<cache_file, cache_loaded, cache_data, cache_now, cache_sets, cache_got,
                   cache_lock, tbuf>>
    /\ UNCHANGED cache_fs
    /\ UNCHANGED notCacheVars

\* if self._loaded: return                                        (line 24)
TCheckLoaded(t) ==
    /\ tpc[t] = "check"
    /\ tpc' = [tpc EXCEPT ![t] = IF cache_loaded THEN "body" ELSE "read"]
    /\ UNCHANGED <<cache_file, cache_loaded, cache_data, cache_now, cache_sets, cache_got,
                   cache_lock, top, tbuf>>
    /\ UNCHANGED cache_fs
    /\ UNCHANGED notCacheVars

\* if self.path.exists(): json.loads(self.path.read_text())       (lines 26-28)
TRead(t) ==
    /\ tpc[t] = "read"
    /\ IF cache_file.exists
          THEN /\ tbuf' = [tbuf EXCEPT ![t] = ParsedFile(cache_file)]
               /\ tpc' = [tpc EXCEPT ![t] = "assign"]
          ELSE /\ tpc' = [tpc EXCEPT ![t] = "mark"]
               /\ UNCHANGED tbuf
    /\ UNCHANGED <<cache_file, cache_loaded, cache_data, cache_now, cache_sets, cache_got,
                   cache_lock, top>>
    /\ UNCHANGED cache_fs
    /\ UNCHANGED notCacheVars

\* self._data = <the parsed file>, or {} in the except branch     (lines 28, 30)
TAssign(t) ==
    /\ tpc[t] = "assign"
    /\ cache_data' = tbuf[t]
    /\ tpc' = [tpc EXCEPT ![t] = "mark"]
    /\ UNCHANGED <<cache_file, cache_loaded, cache_now, cache_sets, cache_got,
                   cache_lock, top, tbuf>>
    /\ UNCHANGED cache_fs
    /\ UNCHANGED notCacheVars

\* self._loaded = True                                            (line 31)
TMark(t) ==
    /\ tpc[t] = "mark"
    /\ cache_loaded' = TRUE
    /\ tpc' = [tpc EXCEPT ![t] = "body"]
    /\ UNCHANGED <<cache_file, cache_data, cache_now, cache_sets, cache_got,
                   cache_lock, top, tbuf>>
    /\ UNCHANGED cache_fs
    /\ UNCHANGED notCacheVars

\* return self._data.get(key)                                     (line 36)
TGet(t) ==
    /\ tpc[t] = "body"
    /\ top[t].op = "get"
    /\ cache_got' = [cache_got EXCEPT ![top[t].args] = cache_data[KeyOf(top[t].args)]]
    /\ tpc' = [tpc EXCEPT ![t] = "done"]
    /\ UNCHANGED <<cache_file, cache_loaded, cache_data, cache_now, cache_sets,
                   cache_lock, top, tbuf>>
    /\ UNCHANGED cache_fs
    /\ UNCHANGED notCacheVars

\* with self._lock:  (acquire)                                    (line 41)
TAcquire(t) ==
    /\ tpc[t] = "body"
    /\ top[t].op = "set"
    /\ cache_lock = NULL
    /\ cache_lock' = t
    /\ tpc' = [tpc EXCEPT ![t] = "store"]
    /\ UNCHANGED <<cache_file, cache_loaded, cache_data, cache_now, cache_sets, cache_got,
                   top, tbuf>>
    /\ UNCHANGED cache_fs
    /\ UNCHANGED notCacheVars

\* self._data[key] = {"result": result, "cached_at": ...}         (lines 42-45)
TStore(t) ==
    /\ tpc[t] = "store"
    /\ cache_data' = Store(cache_data, KeyOf(top[t].args), CacheEntry(top[t].result, cache_now))
    /\ cache_sets' = Append(cache_sets, [args |-> top[t].args, result |-> top[t].result,
                                         cached_at |-> cache_now])
    /\ tpc' = [tpc EXCEPT ![t] = "release"]
    /\ UNCHANGED <<cache_file, cache_loaded, cache_now, cache_got, cache_lock, top, tbuf>>
    /\ UNCHANGED cache_fs
    /\ UNCHANGED notCacheVars

\* leaving the with block releases the lock; set() returns
TRelease(t) ==
    /\ tpc[t] = "release"
    /\ cache_lock' = NULL
    /\ tpc' = [tpc EXCEPT ![t] = "done"]
    /\ UNCHANGED <<cache_file, cache_loaded, cache_data, cache_now, cache_sets, cache_got,
                   top, tbuf>>
    /\ UNCHANGED cache_fs
    /\ UNCHANGED notCacheVars

CacheRaceNext ==
    \/ \E t \in CacheThreads, op \in CacheOps : TCall(t, op)
    \/ \E t \in CacheThreads : TCheckLoaded(t)
    \/ \E t \in CacheThreads : TRead(t)
    \/ \E t \in CacheThreads : TAssign(t)
    \/ \E t \in CacheThreads : TMark(t)
    \/ \E t \in CacheThreads : TGet(t)
    \/ \E t \in CacheThreads : TAcquire(t)
    \/ \E t \in CacheThreads : TStore(t)
    \/ \E t \in CacheThreads : TRelease(t)

CacheRaceSpec == CacheInit /\ [][CacheRaceNext]_vars

\* ---- save() on one cache from two threads, with set() calls in between
\* save() takes no lock; every thread uses the same temp path (line 50).  The steps of
\* a call: open the temp file for writing, two writes, close, rename.

\* len(self._data)
Size(data) == Cardinality({k \in CacheKeyStrings : data[k] # Absent})

\* write(2) of block b at the handle's offset: it overwrites what is there and leaves
\* a hole when the file has been truncated below the offset meanwhile
WriteAt(blocks, pos, b) ==
    [i \in 1..(IF pos > Len(blocks) THEN pos ELSE Len(blocks)) |->
        IF i = pos THEN b ELSE IF i <= Len(blocks) THEN blocks[i] ELSE Hole]

\* self._load(); temp_path.open("w"): creates the temp file or truncates the one
\* that is there, which other handles keep pointing to              (lines 48-51)
SaveOpen(t) ==
    LET data == Loaded(cache_loaded, cache_data, cache_file)
        n == cache_fs.saves + 1
    IN /\ tpc[t] = "idle"
       /\ cache_fs.saves < MaxSaves
       /\ cache_data' = data
       /\ cache_loaded' = TRUE
       /\ cache_fs' = [cache_fs EXCEPT
                          !.tmp = [exists |-> TRUE, blocks |-> <<>>],
                          !.fd[t] = [at |-> "tmp", offset |-> 0, save |-> n, size |-> Size(data)],
                          !.saves = n]
       /\ tpc' = [tpc EXCEPT ![t] = "opened"]
       /\ UNCHANGED <<cache_file, cache_now, cache_sets, cache_got, cache_lock, top, tbuf>>
       /\ UNCHANGED notCacheVars

\* json.dump(self._data, handle): the next write; the dict is iterated while other
\* threads may set(), and a dict that changed size raises RuntimeError, which closes
\* the handle and leaves save() before the rename                    (lines 51-52)
SaveWrite(t) ==
    LET fd == cache_fs.fd[t]
        pos == fd.offset + 1
        b == [save |-> fd.save, part |-> pos, data |-> cache_data]
        raised == Size(cache_data) # fd.size
        written == [cache_fs EXCEPT
                      !.tmp = IF fd.at = "tmp" THEN [@ EXCEPT !.blocks = WriteAt(@, pos, b)] ELSE @,
                      !.path = IF fd.at = "path" THEN [@ EXCEPT !.blocks = WriteAt(@, pos, b)] ELSE @,
                      !.fd[t] = IF pos = 2 THEN Closed ELSE [@ EXCEPT !.offset = pos]]
    IN /\ tpc[t] \in {"opened", "half"}
       /\ cache_fs' = IF raised THEN [cache_fs EXCEPT !.fd[t] = Closed] ELSE written
       /\ cache_file' = AsFile(cache_fs'.path)
       /\ tpc' = [tpc EXCEPT ![t] = IF raised THEN "idle" ELSE IF pos = 2 THEN "written" ELSE "half"]
       /\ UNCHANGED <<cache_loaded, cache_data, cache_now, cache_sets, cache_got, cache_lock,
                      top, tbuf>>
       /\ UNCHANGED notCacheVars

\* temp_path.replace(self.path): rename(2) moves the file that is at the temp path
\* now, with the handles open on it; FileNotFoundError when another save() has
\* renamed it already                                                   (line 53)
SaveReplace(t) ==
    LET moved(fd) == IF fd.at = "tmp" THEN [fd EXCEPT !.at = "path"]
                     ELSE IF fd.at = "path" THEN [fd EXCEPT !.at = "orphan"]
                     ELSE fd
    IN /\ tpc[t] = "written"
       /\ cache_fs' = IF cache_fs.tmp.exists
                        THEN [cache_fs EXCEPT !.path = cache_fs.tmp,
                                              !.tmp = NoBlocks,
                                              !.fd = [u \in CacheThreads |-> moved(cache_fs.fd[u])]]
                        ELSE cache_fs
       /\ cache_file' = AsFile(cache_fs'.path)
       /\ tpc' = [tpc EXCEPT ![t] = "idle"]
       /\ UNCHANGED <<cache_loaded, cache_data, cache_now, cache_sets, cache_got, cache_lock,
                      top, tbuf>>
       /\ UNCHANGED notCacheVars

\* the cache file is missing or was saved by an earlier run
CacheSaveInit == CacheInit /\ cache_file # CorruptFile

CacheSaveNext ==
    \/ \E t \in CacheThreads : SaveOpen(t)
    \/ \E t \in CacheThreads : SaveWrite(t)
    \/ \E t \in CacheThreads : SaveReplace(t)
    \/ \E a \in CacheArgs : CacheSet(a, "A", cache_now)

CacheSaveSpec == CacheSaveInit /\ [][CacheSaveNext]_vars

\* ======================================================== embedding index
\* app/services/retrieval.py, EmbeddingIndex, as search_chunks_embedding uses it
\* (lines 442-459): index = EmbeddingIndex(); index.load(model_name, dim); then
\* index.embeddings and index.meta are read.  Each thread makes one such call; the
\* threads interleave at every read and write of the class and instance attributes.
\* A matrix or metadata list is [load |-> n, len |-> k]: built by the n-th read of
\* the embedding rows, with k rows.

\* the (model_name, dim) arguments of load()
LoadArgs ==
    {[model_name |-> "m1", dim |-> 2], [model_name |-> "m2", dim |-> 2],
     [model_name |-> "m1", dim |-> 3]}

\* rows of lecture_chunk_embeddings with e.model_name = :model whose blob decodes
\* to dim floats (decode_embedding returns None for any other size)
DecodedRows(model_name, dim) ==
    IF dim # 2 THEN 0
    ELSE IF model_name = "m1" THEN 2
    ELSE 1

IStep(t, to) == ipc' = [ipc EXCEPT ![t] = to]

\* search_chunks_embedding reaches index = EmbeddingIndex():
\* __new__, if cls._instance is None                              (line 293)
INew(t, a) ==
    /\ ipc[t] = "idle"
    /\ iargs' = [iargs EXCEPT ![t] = a]
    /\ IStep(t, IF index_instance THEN "init" ELSE "new_lock")
    /\ UNCHANGED <<index_lock, index_instance, index_initialized, index_model_name,
                   index_dim, index_embeddings, index_meta, index_reads, ibuf, iobs>>
    /\ UNCHANGED notIndexVars

\* with cls._lock: if cls._instance is None: cls._instance = super().__new__(cls)
\*                                                                 (lines 294-296)
INewCreate(t) ==
    /\ ipc[t] = "new_lock"
    /\ index_lock = NULL
    /\ index_lock' = t
    /\ IF index_instance
          THEN IStep(t, "new_unlock") /\ UNCHANGED index_instance
          ELSE IStep(t, "new_flag") /\ index_instance' = TRUE
    /\ UNCHANGED <<index_initialized, index_model_name, index_dim, index_embeddings,
                   index_meta, index_reads, iargs, ibuf, iobs>>
    /\ UNCHANGED notIndexVars

\* cls._instance._initialized = False                             (line 297)
INewFlag(t) ==
    /\ ipc[t] = "new_flag"
    /\ index_initialized' = "false"
    /\ IStep(t, "new_unlock")
    /\ UNCHANGED <<index_lock, index_instance, index_model_name, index_dim,
                   index_embeddings, index_meta, index_reads, iargs, ibuf, iobs>>
    /\ UNCHANGED notIndexVars

\* the with block ends; return cls._instance                      (line 298)
INewUnlock(t) ==
    /\ ipc[t] = "new_unlock"
    /\ index_lock' = NULL
    /\ IStep(t, "init")
    /\ UNCHANGED <<index_instance, index_initialized, index_model_name, index_dim,
                   index_embeddings, index_meta, index_reads, iargs, ibuf, iobs>>
    /\ UNCHANGED notIndexVars

\* __init__: if self._initialized: return; the attribute does not exist until
\* line 297 has run, and reading it then raises AttributeError   (lines 301-302)
IInitCheck(t) ==
    /\ ipc[t] = "init"
    /\ IStep(t, CASE index_initialized = "true" -> "load"
                  [] index_initialized = "false" -> "init_model"
                  [] OTHER -> "raised")
    /\ UNCHANGED <<index_lock, index_instance, index_initialized, index_model_name,
                   index_dim, index_embeddings, index_meta, index_reads, iargs, ibuf, iobs>>
    /\ UNCHANGED notIndexVars

\* self._model_name = None; self._dim = None                      (lines 303-304)
IInitModel(t) ==
    /\ ipc[t] = "init_model"
    /\ index_model_name' = ""
    /\ index_dim' = NULL
    /\ IStep(t, "init_embeddings")
    /\ UNCHANGED <<index_lock, index_instance, index_initialized,
                   index_embeddings, index_meta, index_reads, iargs, ibuf, iobs>>
    /\ UNCHANGED notIndexVars

\* self._embeddings = None                                        (line 305)
IInitEmbeddings(t) ==
    /\ ipc[t] = "init_embeddings"
    /\ index_embeddings' = NoMatrix
    /\ IStep(t, "init_meta")
    /\ UNCHANGED <<index_lock, index_instance, index_initialized, index_model_name,
                   index_dim, index_meta, index_reads, iargs, ibuf, iobs>>
    /\ UNCHANGED notIndexVars

\* self._meta = []                                                (line 306)
IInitMeta(t) ==
    /\ ipc[t] = "init_meta"
    /\ index_meta' = NoMeta
    /\ IStep(t, "init_flag")
    /\ UNCHANGED <<index_lock, index_instance, index_initialized, index_model_name,
                   index_dim, index_embeddings, index_reads, iargs, ibuf, iobs>>
    /\ UNCHANGED notIndexVars

\* self._initialized = True                                       (line 307)
IInitFlag(t) ==
    /\ ipc[t] = "init_flag"
    /\ index_initialized' = "true"
    /\ IStep(t, "load")
    /\ UNCHANGED <<index_lock, index_instance, index_model_name, index_dim,
                   index_embeddings, index_meta, index_reads, iargs, ibuf, iobs>>
    /\ UNCHANGED notIndexVars

\* self._model_name == model_name and self._dim == dim and
\* self._embeddings is not None                                   (lines 310-314)
IsLoaded(model_name, dim) ==
    /\ index_model_name = model_name
    /\ index_dim = dim
    /\ index_embeddings # NoMatrix

\* load(): return at once when the index holds this model and dimension
ILoadCheck(t) ==
    /\ ipc[t] = "load"
    /\ IStep(t, IF IsLoaded(iargs[t].model_name, iargs[t].dim) THEN "returned" ELSE "read")
    /\ UNCHANGED <<index_lock, index_instance, index_initialized, index_model_name,
                   index_dim, index_embeddings, index_meta, index_reads, iargs, ibuf, iobs>>
    /\ UNCHANGED notIndexVars

\* the rows are selected and decoded into the local embeddings and meta lists;
\* index_reads records each such read                              (lines 316-355)
IRead(t) ==
    /\ ipc[t] = "read"
    /\ index_reads' = Append(index_reads, [thread |-> t, args |-> iargs[t]])
    /\ ibuf' = [ibuf EXCEPT ![t] = [load |-> Len(index_reads) + 1,
                                      len |-> DecodedRows(iargs[t].model_name, iargs[t].dim)]]
    /\ IStep(t, "set_model")
    /\ UNCHANGED <<index_lock, index_instance, index_initialized, index_model_name,
                   index_dim, index_embeddings, index_meta, iargs, iobs>>
    /\ UNCHANGED notIndexVars

\* self._model_name = model_name; self._dim = dim                 (lines 357-358)
ISetModel(t) ==
    /\ ipc[t] = "set_model"
    /\ index_model_name' = iargs[t].model_name
    /\ index_dim' = iargs[t].dim
    /\ IStep(t, "set_embeddings")
    /\ UNCHANGED <<index_lock, index_instance, index_initialized,
                   index_embeddings, index_meta, index_reads, iargs, ibuf, iobs>>
    /\ UNCHANGED notIndexVars

\* self._embeddings = np.vstack(embeddings) or np.zeros((0, dim)) (lines 359-362)
ISetEmbeddings(t) ==
    /\ ipc[t] = "set_embeddings"
    /\ index_embeddings' = ibuf[t]
    /\ IStep(t, "set_meta")
    /\ UNCHANGED <<index_lock, index_instance, index_initialized, index_model_name,
                   index_dim, index_meta, index_reads, iargs, ibuf, iobs>>
    /\ UNCHANGED notIndexVars

\* self._meta = meta; load() returns                              (line 363)
ISetMeta(t) ==
    /\ ipc[t] = "set_meta"
    /\ index_meta' = ibuf[t]
    /\ IStep(t, "returned")
    /\ UNCHANGED <<index_lock, index_instance, index_initialized, index_model_name,
                   index_dim, index_embeddings, index_reads, iargs, ibuf, iobs>>
    /\ UNCHANGED notIndexVars

\* after load() returned the caller reads index.embeddings        (lines 444-447)
IObserveEmbeddings(t) ==
    /\ ipc[t] = "returned"
    /\ iobs' = [iobs EXCEPT ![t] = [embeddings |-> index_embeddings, meta |-> NoMeta,
                                      seen |-> FALSE]]
    /\ IStep(t, "ranked")
    /\ UNCHANGED <<index_lock, index_instance, index_initialized, index_model_name,
                   index_dim, index_embeddings, index_meta, index_reads, iargs, ibuf>>
    /\ UNCHANGED notIndexVars

\* ... and index.meta                                              (line 459)
IObserveMeta(t) ==
    /\ ipc[t] = "ranked"
    /\ iobs' = [iobs EXCEPT ![t].meta = index_meta, ![t].seen = TRUE]
    /\ IStep(t, "done")
    /\ UNCHANGED <<index_lock, index_instance, index_initialized, index_model_name,
                   index_dim, index_embeddings, index_meta, index_reads, iargs, ibuf>>
    /\ UNCHANGED notIndexVars

IndexInit ==
    /\ JobsIdle /\ JudgeIdle /\ FeatureIdle /\ PipeIdle /\ ApplyIdle /\ CacheIdle
    /\ IndexIdle /\ CallIdle /\ QueryIdle

IndexNext ==
    \/ \E t \in IndexThreads, a \in LoadArgs : INew(t, a)
    \/ \E t \in IndexThreads : INewCreate(t)
    \/ \E t \in IndexThreads : INewFlag(t)
    \/ \E t \in IndexThreads : INewUnlock(t)
    \/ \E t \in IndexThreads : IInitCheck(t)
    \/ \E t \in IndexThreads : IInitModel(t)
    \/ \E t \in IndexThreads : IInitEmbeddings(t)
    \/ \E t \in IndexThreads : IInitMeta(t)
    \/ \E t \in IndexThreads : IInitFlag(t)
    \/ \E t \in IndexThreads : ILoadCheck(t)
    \/ \E t \in IndexThreads : IRead(t)
    \/ \E t \in IndexThreads : ISetModel(t)
    \/ \E t \in IndexThreads : ISetEmbeddings(t)
    \/ \E t \in IndexThreads : ISetMeta(t)
    \/ \E t \in IndexThreads : IObserveEmbeddings(t)
    \/ \E t \in IndexThreads : IObserveMeta(t)

IndexSpec == IndexInit /\ [][IndexNext]_vars

\* ================================================== reciprocal rank fusion
\* (rrf_k is the default 60 or the smallest valid value 1; top_n is the default 80
\* or 2, which cuts the list)
\* app/services/retrieval.py, search_chunks_hybrid_rrf from line 490 on: the fusion
\* of the lexical hits (bm25_chunks) and the dense hits (emb_chunks).  A hit is its
\* chunk id; a score is the exact fraction num / den.

RrfChunkIds == 1..4

\* the lists without repeated chunks of at most n hits
DistinctLists(n) ==
    {l \in SeqsUpTo(RrfChunkIds, n) : \A i, j \in 1..Len(l) : l[i] = l[j] => i = j}

FracLess(a, b) == a.num * b.den < b.num * a.den

RrfDen_Mutant(rrf_k, rank) == rrf_k + rank

\* the denominator of 1.0 / (rrf_k + idx + 1)                  (lines 543, 555, 563)
RrfDen(rrf_k, rank) == rrf_k + rank + 1

RECURSIVE AddRanks(_, _, _, _)
\* for idx, chunk in enumerate(chunks): rrf_scores.setdefault(chunk_id, 0.0);
\* rrf_scores[chunk_id] += 1.0 / (rrf_k + idx + 1); scores is the dict in insertion
\* order and i - 1 the index idx                                      (lines 550-564)
AddRanks(scores, chunks, i, rrf_k) ==
    IF i > Len(chunks) THEN scores
    ELSE LET d == RrfDen(rrf_k, i - 1)
             at == {j \in 1..Len(scores) : scores[j].chunk_id = chunks[i]}
             next == IF at = {}
                     THEN Append(scores, [chunk_id |-> chunks[i], num |-> 1, den |-> d])
                     ELSE LET j == CHOOSE j \in at : TRUE
                          IN [scores EXCEPT ![j] = [chunk_id |-> @.chunk_id,
                                                    num |-> @.num * d + @.den,
                                                    den |-> @.den * d]]
         IN AddRanks(next, chunks, i + 1, rrf_k)

\* x takes its place behind every item that does not score lower
InsertDesc(sorted, x) ==
    LET lower == {i \in 1..Len(sorted) : FracLess(sorted[i], x)}
        pos == IF lower = {} THEN Len(sorted) + 1
               ELSE CHOOSE i \in lower : \A j \in lower : i <= j
    IN SubSeq(sorted, 1, pos - 1) \o <<x>> \o SubSeq(sorted, pos, Len(sorted))

RECURSIVE SortDesc(_, _)
\* combined.sort(key=rrf_score, reverse=True): a stable sort of the first n items
SortDesc(combined, n) ==                                          \* (line 580)
    IF n = 0 THEN <<>> ELSE InsertDesc(SortDesc(combined, n - 1), combined[n])

\* what search_chunks_hybrid_rrf returns for the two hit lists  (lines 490-491, 541-581)
FuseRrf(bm25_chunks, emb_chunks, rrf_k, top_n) ==
    IF bm25_chunks = <<>> THEN <<>>
    ELSE IF emb_chunks = <<>>
    THEN [i \in 1..Len(bm25_chunks) |->
             [chunk_id |-> bm25_chunks[i], num |-> 1, den |-> RrfDen(rrf_k, i - 1)]]
    ELSE LET rrf_scores == AddRanks(AddRanks(<<>>, bm25_chunks, 1, rrf_k), emb_chunks, 1, rrf_k)
             combined == SortDesc(rrf_scores, Len(rrf_scores))
         IN SubSeq(combined, 1, IF top_n < Len(combined) THEN top_n ELSE Len(combined))

RrfInit ==
    /\ JobsIdle /\ JudgeIdle /\ FeatureIdle /\ PipeIdle /\ ApplyIdle /\ CacheIdle /\ IndexIdle
    /\ QueryIdle
    /\ call_pc = "args"
    /\ call_args \in [bm25_chunks : DistinctLists(MaxListLen), emb_chunks : DistinctLists(MaxListLen),
                       rrf_k : {60, 1}, top_n : {80, 2}]
    /\ call_result = <<>>

\* the two lists are fused
ApplyFuseRrf ==
    /\ call_pc = "args"
    /\ call_result' = FuseRrf(call_args.bm25_chunks, call_args.emb_chunks,
                              call_args.rrf_k, call_args.top_n)
    /\ call_pc' = "returned"
    /\ UNCHANGED call_args
    /\ UNCHANGED notCallVars

RrfSpec == RrfInit /\ [][ApplyFuseRrf]_vars

\* ==================================================== scope and candidates
\* app/services/ai_classifier.py, _process_job lines 512-530 (the job's scope) and
\* 553-557 with LectureRetriever.find_candidates, retrieval.search_chunks_bm25 and
\* retrieval.aggregate_candidates: from the request's scope and the chunks the
\* lexical index matches for a question to the candidate list given to the judge.

\* lecture_ids is None
NoIds == [given |-> FALSE, ids |-> <<>>]
Ids(ids) == [given |-> TRUE, ids |-> ids]

\* the chunks of the lexical index with their lecture and bm25 score (lower is
\* better); lecture 8 has been deleted, its chunks are still indexed
IndexedChunks ==
    <<[chunk_id |-> 1, lecture_id |-> 7, bm25_score |-> -3],
      [chunk_id |-> 2, lecture_id |-> 9, bm25_score |-> -2],
      [chunk_id |-> 3, lecture_id |-> 8, bm25_score |-> -2],
      [chunk_id |-> 4, lecture_id |-> 7, bm25_score |-> -1]>>

\* block 1 holds lectures 7 and 9, block 2 holds none
LecturesOfBlock(block_id) == IF block_id = 1 THEN <<7, 9>> ELSE <<>>

\* the scopes a request can carry: lecture_ids absent, [] or a list; block_id absent
\* or a block
Scopes == [lecture_ids : {NoIds, Ids(<<>>), Ids(<<7>>), Ids(<<9, 7>>)}, block_id : {NULL, 1, 2}]

\* lecture_ids = scope.get('lecture_ids') or scope.get('lectureIds'); an empty
\* list is falsy, so it becomes None; then resolve_lecture_ids when lecture_ids is
\* None and a block is given                                      (lines 519-530)
JobLectureIds(scope) ==
    LET lecture_ids == IF scope.lecture_ids.ids = <<>> THEN NoIds ELSE scope.lecture_ids
    IN IF ~lecture_ids.given /\ scope.block_id # NULL
       THEN Ids(LecturesOfBlock(scope.block_id))
       ELSE lecture_ids

\* search_chunks_bm25: [] for an empty match query or an empty lecture_ids list,
\* else the matching chunks in bm25 order, restricted to lecture_ids when given
SearchChunksBm25(matching, lecture_ids) ==                  \* (retrieval.py 205-251)
    IF matching = {} THEN <<>>
    ELSE IF lecture_ids.given /\ lecture_ids.ids = <<>> THEN <<>>
    ELSE SelectSeq(IndexedChunks,
                   LAMBDA c : /\ c.chunk_id \in matching
                              /\ lecture_ids.given =>
                                    \E i \in 1..Len(lecture_ids.ids) : lecture_ids.ids[i] = c.lecture_id)

RECURSIVE PerLecture(_, _, _)
\* per_lecture in insertion order: score += -(bm25_score), evidence appended; the
\* score is kept as num / 1                                 (retrieval.py 592-608)
PerLecture(chunks, i, acc) ==
    IF i > Len(chunks) THEN acc
    ELSE LET c == chunks[i]
             at == {j \in 1..Len(acc) : acc[j].id = c.lecture_id}
             next == IF at = {}
                     THEN Append(acc, [id |-> c.lecture_id, num |-> -c.bm25_score, den |-> 1,
                                       evidence |-> <<c.chunk_id>>])
                     ELSE LET j == CHOOSE j \in at : TRUE
                          IN [acc EXCEPT ![j].num = @ - c.bm25_score,
                                         ![j].evidence = Append(@, c.chunk_id)]
         IN PerLecture(chunks, i + 1, next)

\* aggregate_candidates(chunks, top_k_lectures=8, evidence_per_lecture=3): lectures
\* that no longer exist are dropped; a lecture's evidence is already in descending
\* score, as the chunks are                                 (retrieval.py 584-648)
AggregateCandidates(chunks) ==
    LET existing == SelectSeq(PerLecture(chunks, 1, <<>>), LAMBDA c : c.id \in LectureIds)
        cut == [i \in 1..Len(existing) |->
                   [existing[i] EXCEPT !.evidence =
                        SubSeq(@, 1, IF Len(@) < 3 THEN Len(@) ELSE 3)]]
        sorted == SortDesc(cut, Len(cut))
    IN SubSeq(sorted, 1, IF Len(sorted) < 8 THEN Len(sorted) ELSE 8)

\* LectureRetriever.find_candidates(question_text, top_k=8, lecture_ids=lecture_ids)
FindCandidates(mode, matching, lecture_ids) ==          \* (ai_classifier.py 183-198)
    IF mode # "bm25" THEN <<>>
    ELSE AggregateCandidates(SearchChunksBm25(matching, lecture_ids))

ScopeInit ==
    /\ JobsIdle /\ JudgeIdle /\ FeatureIdle /\ PipeIdle /\ ApplyIdle /\ CacheIdle /\ IndexIdle
    /\ QueryIdle
    /\ call_pc = "args"
    /\ call_args \in [scope : Scopes, mode : {"bm25", "hybrid_rrf"},
                       matching : SUBSET {1, 2, 3, 4}]
    /\ call_result = <<>>

\* the worker resolves the job's scope
ResolveJobScope ==
    /\ call_pc = "args"
    /\ call_result' = [lecture_ids |-> JobLectureIds(call_args.scope), candidates |-> <<>>]
    /\ call_pc' = "scoped"
    /\ UNCHANGED call_args
    /\ UNCHANGED notCallVars

\* ... and retrieves the candidates of a question
RetrieveCandidates ==
    /\ call_pc = "scoped"
    /\ call_result' = [call_result EXCEPT !.candidates =
                           FindCandidates(call_args.mode, call_args.matching, call_result.lecture_ids)]
    /\ call_pc' = "returned"
    /\ UNCHANGED call_args
    /\ UNCHANGED notCallVars

ScopeNext == ResolveJobScope \/ RetrieveCandidates

ScopeSpec == ScopeInit /\ [][ScopeNext]_vars

\* ---- a call that fails
CommittedOnFailure_Mutant(before, pending) == pending

\* what the database holds when the call raised: db.session.commit() is the last
\* statement (line 784), so nothing of the call has been committed
CommittedOnFailure(before, pending) == before

\* apply_classification_results raises after it handled the first n questions (while
\* handling the next one, or in the commit): their changes are pending in the
\* session; the route's except handler answers 500              (routes/ai.py 168-175)
ApplyFails(question_ids, job_id, apply_mode, n) ==
    LET st == ApplyClassificationResults(question, matches, SubSeq(question_ids, 1, n), job_id,
                                         apply_mode, lectures)
        pending == [question |-> st.question, matches |-> st.matches]
        before == [question |-> question, matches |-> matches]
    IN /\ last_apply = NoApply
       /\ ~apply_session.open
       /\ JobPayload(job_id) # <<>>
       /\ apply_session' = [open |-> TRUE, question |-> st.question, matches |-> st.matches]
       /\ question' = CommittedOnFailure(before, pending).question
       /\ matches' = CommittedOnFailure(before, pending).matches
       /\ last_apply' = [job_id |-> job_id, question_ids |-> question_ids,
                         apply_mode |-> apply_mode, applied_count |-> 0,
                         committed |-> <<>>, repeated |-> FALSE]
       /\ UNCHANGED lectures
       /\ UNCHANGED notApplyVars

\* the request ends: Flask-SQLAlchemy removes the session, which rolls back what was
\* not committed
Teardown ==
    /\ apply_session.open
    /\ apply_session' = NoSession
    /\ UNCHANGED <<lectures, question, matches, last_apply>>
    /\ UNCHANGED notApplyVars

ApplyFailNext ==
    \/ \E ids \in ApplyIdLists, j \in ApplyJobIds, m \in ApplyModes : ApplyFirst(ids, j, m)
    \/ \E ids \in ApplyIdLists, j \in ApplyJobIds, m \in ApplyModes, n \in 0..2 :
          n <= Len(ids) /\ ApplyFails(ids, j, m, n)
    \/ Teardown

ApplyFailSpec == ApplyInit /\ [][ApplyFailNext]_vars

\* ====================================================== context expansion
\* app/services/context_expander.py: expand_candidates on one candidate whose seed
\* chunk exists, and _assemble_parent_text.  A text is a sequence of characters; a
\* chunk is [id, content].

\* separator = "\n\n---\n\n"
Separator == <<"\n", "\n", "-", "-", "-", "\n", "\n">>

\* "...(truncated)"
TruncatedMark == <<".", ".", ".", "(", "t", "r", "u", "n", "c", "a", "t", "e", "d", ")">>

\* a chunk content of n characters
Content(n) == [i \in 1..n |-> "x"]

\* the chunk contents of the model: empty, short, and longer than the small budget
Contents == {Content(0), Content(2), Content(5)}

\* the neighbours _semantic_neighbors returns: other chunks of the lecture, best first
NeighborLists ==
    {<<>>} \cup {<<[id |-> 2, content |-> c]>> : c \in Contents}
          \cup {<<[id |-> 2, content |-> c], [id |-> 3, content |-> d]>> : c, d \in Contents}
          \cup {<<[id |-> 2, content |-> c], [id |-> 2, content |-> c]>> : c \in Contents}

RECURSIVE Unique(_, _, _)
\* "Deduplicate while keeping order"                              (lines 141-148)
Unique(chunks, i, kept) ==
    IF i > Len(chunks) THEN kept
    ELSE Unique(chunks, i + 1,
                IF \E j \in 1..Len(kept) : kept[j].id = chunks[i].id THEN kept
                ELSE Append(kept, chunks[i]))

RECURSIVE Selected(_, _, _, _, _)
\* the loop of _assemble_parent_text                               (lines 82-92)
Selected(chunks, i, selected, total, max_chars) ==
    IF i > Len(chunks) THEN selected
    ELSE LET content == chunks[i].content
             add_len == Len(content) + (IF selected # <<>> THEN Len(Separator) ELSE 0)
         IN IF selected # <<>> /\ total + add_len > max_chars THEN selected
            ELSE IF selected = <<>> /\ Len(content) > max_chars THEN <<chunks[i]>>
            ELSE Selected(chunks, i + 1, Append(selected, chunks[i]), total + add_len, max_chars)

RECURSIVE Joined(_)
\* separator.join(c.content or "" for c in selected)
Joined(selected) ==
    IF selected = <<>> THEN <<>>
    ELSE IF Len(selected) = 1 THEN selected[1].content
    ELSE Joined(SubSeq(selected, 1, Len(selected) - 1)) \o Separator
             \o selected[Len(selected)].content

\* _assemble_parent_text(chunks, max_chars)                        (lines 77-101)
AssembleParentText(chunks, max_chars) ==
    LET selected == Selected(chunks, 1, <<>>, 0, max_chars)
        text_block == Joined(selected)
    IN IF selected = <<>> THEN [text |-> <<>>, ids |-> <<>>]
       ELSE [text |-> IF Len(text_block) > max_chars
                      THEN SubSeq(text_block, 1, max_chars) \o TruncatedMark
                      ELSE text_block,
             ids |-> [i \in 1..Len(selected) |-> selected[i].id]]

\* the candidate after the loop body of expand_candidates          (lines 124-162);
\* without content the seed has no neighbours (lines 33-35) and the candidate gets
\* no parent_text (lines 151-152)
ExpandCandidate(seed, neighbors, max_extra, max_chars) ==
    LET neighbor_chunks == IF seed.content = <<>> THEN <<>> ELSE neighbors
        extra == SubSeq(neighbor_chunks, 1,
                        IF max_extra < Len(neighbor_chunks) THEN max_extra
                        ELSE Len(neighbor_chunks))
        unique_chunks == Unique(<<seed>> \o extra, 1, <<>>)
        parent == AssembleParentText(unique_chunks, max_chars)
    IN IF parent.text = <<>> THEN [expanded |-> FALSE, parent_text |-> <<>>, parent_chunk_ids |-> <<>>]
       ELSE [expanded |-> TRUE, parent_text |-> parent.text, parent_chunk_ids |-> parent.ids]

ExpandInit ==
    /\ JobsIdle /\ JudgeIdle /\ FeatureIdle /\ PipeIdle /\ ApplyIdle /\ CacheIdle /\ IndexIdle
    /\ QueryIdle
    /\ call_pc = "args"
    /\ call_args \in [seed : {[id |-> 1, content |-> c] : c \in Contents},
                       neighbors : NeighborLists, max_extra : {1, 2}, max_chars : {3, 10, 20}]
    /\ call_result = <<>>

\* the candidate is expanded
ApplyExpand ==
    /\ call_pc = "args"
    /\ call_result' = ExpandCandidate(call_args.seed, call_args.neighbors,
                                      call_args.max_extra, call_args.max_chars)
    /\ call_pc' = "returned"
    /\ UNCHANGED call_args
    /\ UNCHANGED notCallVars

ExpandSpec == ExpandInit /\ [][ApplyExpand]_vars

\* ========================================================== lexical query
\* app/services/retrieval.py, lines 23-143 and search_chunks_bm25 lines 187-204: from
\* the question text and the HyDE payload to the FTS match string.  A str is a
\* sequence of characters; a Hangul syllable is one character, written by its
\* romanisation ("jung" is the syllable of the stop word 중).  The match string is
\* kept as the sequence of its terms, which the code joins with " OR ".

FtsReserved == {<<"O", "R">>, <<"A", "N", "D">>, <<"N", "O", "T">>, <<"N", "E", "A", "R">>}

\* two of the configured stop words: 중 and 다음
Bm25Stopwords == {<<"jung">>, <<"da", "eum">>}

HangulSyllables == {"jung", "da", "eum", "tan"}

\* the letters of the model
LowerLetters == <<"a", "d", "n">>
UpperLetters == <<"A", "D", "N">>

\* str.upper() and str.lower()
StrUpper(str) ==
    [i \in 1..Len(str) |->
        IF \E k \in 1..Len(LowerLetters) : LowerLetters[k] = str[i]
        THEN UpperLetters[CHOOSE k \in 1..Len(LowerLetters) : LowerLetters[k] = str[i]]
        ELSE str[i]]
StrLower(str) ==
    [i \in 1..Len(str) |->
        IF \E k \in 1..Len(UpperLetters) : UpperLetters[k] = str[i]
        THEN LowerLetters[CHOOSE k \in 1..Len(UpperLetters) : UpperLetters[k] = str[i]]
        ELSE str[i]]

\* the alternative of _TOKEN_RE a character belongs to (letters and syllables only)
TokenClass(c) == IF c = " " THEN "space" ELSE IF c \in HangulSyllables THEN "hangul" ELSE "latin"

RECURSIVE Scan(_, _, _, _, _)
\* the maximal runs of non-space characters of a str, cut also where the kind of
\* character changes when by_class: _TOKEN_RE.findall(text) and str.split()
Scan(str, i, cur, acc, by_class) ==
    IF i > Len(str) THEN (IF cur = <<>> THEN acc ELSE Append(acc, cur))
    ELSE IF str[i] = " " THEN Scan(str, i + 1, <<>>, IF cur = <<>> THEN acc ELSE Append(acc, cur), by_class)
    ELSE IF by_class /\ cur # <<>> /\ TokenClass(cur[1]) # TokenClass(str[i])
         THEN Scan(str, i + 1, <<str[i]>>, Append(acc, cur), by_class)
    ELSE Scan(str, i + 1, Append(cur, str[i]), acc, by_class)

RECURSIVE JoinSpace(_)
\* " ".join(items)
JoinSpace(items) ==
    IF items = <<>> THEN <<>>
    ELSE IF Len(items) = 1 THEN items[1]
    ELSE JoinSpace(SubSeq(items, 1, Len(items) - 1)) \o <<" ">> \o items[Len(items)]

\* _normalize_query(text): a str                                     (lines 84-98)
NormalizeQuery(str) ==
    JoinSpace(SelectSeq(Scan(str, 1, <<>>, <<>>, TRUE),
                        LAMBDA t : StrUpper(t) \notin FtsReserved /\ t \notin Bm25Stopwords))

\* a Python value that is a str or a list of str
PyStr(str) == [is_str |-> TRUE, val |-> str]
PyList(items) == [is_str |-> FALSE, val |-> items]

\* iterating the value: a str yields its characters
Items(v) == IF v.is_str THEN [i \in 1..Len(v.val) |-> <<v.val[i]>>] ELSE v.val

\* _needs_quote(token)                                               (lines 66-81)
NeedsQuote(token) ==
    /\ token # <<>>
    /\ \/ Len(token) = 1
       \/ token[1] \in {"0", "1", "2", "3", "4", "5", "6", "7", "8", "9"}
       \/ \E i \in 1..Len(token) :
             token[i] \in {"-", "+", "/", "*", "\"", "(", ")", "{", "}", "[", "]", ":"}

RECURSIVE Deduped(_, _, _, _)
\* the first max_terms distinct tokens                             (lines 109-116)
Deduped(tokens, i, kept, max_terms) ==
    IF i > Len(tokens) \/ (kept # <<>> /\ Len(kept) >= max_terms) THEN kept
    ELSE Deduped(tokens, i + 1,
                 IF \E j \in 1..Len(kept) : kept[j] = tokens[i] THEN kept
                 ELSE Append(kept, tokens[i]),
                 max_terms)

\* _build_fts_query(tokens_or_str, max_terms): the terms it joins   (lines 101-123)
BuildFtsQuery(tokens_or_str, max_terms) ==
    LET tokens == IF tokens_or_str.is_str THEN Scan(tokens_or_str.val, 1, <<>>, <<>>, FALSE)
                  ELSE tokens_or_str.val
        deduped == Deduped(tokens, 1, <<>>, max_terms)
    IN [i \in 1..Len(deduped) |-> [token |-> deduped[i], quoted |-> NeedsQuote(deduped[i])]]

\* _filter_negative_terms(tokens, negatives)                        (lines 126-130)
FilterNegativeTerms(tokens, negatives) ==
    IF tokens.val = <<>> \/ negatives = <<>> THEN tokens
    ELSE LET neg == {StrLower(negatives[i]) : i \in {j \in 1..Len(negatives) : negatives[j] # <<>>}}
         IN PyList(SelectSeq(Items(tokens), LAMBDA t : StrLower(t) \notin neg))

\* _clean_tokens(tokens)                                            (lines 133-136)
CleanTokens(tokens) ==
    IF tokens.val = <<>> THEN <<>>
    ELSE SelectSeq(Items(tokens), LAMBDA t : t \notin Bm25Stopwords)

\* _get_hyde_payload returned None
NoPayload == [present |-> FALSE, keywords |-> <<>>, negative_keywords |-> <<>>]

\* fts_query of search_chunks_bm25                                  (lines 187-204)
FtsQuery(str, payload, variant, negative_mode) ==
    LET tokens == NormalizeQuery(str)
        chosen == IF variant = "orig_only" THEN PyStr(tokens)
                  ELSE IF variant = "hyde_only" THEN PyList(payload.keywords)
                  ELSE PyList(payload.keywords \o CleanTokens(PyStr(tokens)))
        positive == IF negative_mode = "stopwords"
                    THEN FilterNegativeTerms(chosen, payload.negative_keywords)
                    ELSE chosen
    IN IF payload.present /\ positive.val # <<>> THEN BuildFtsQuery(positive, 16)
       ELSE BuildFtsQuery(PyStr(tokens), 16)

\* the words of the questions of the model: Na, and, 중 (a stop word), 중탄산
QueryWords == {<<"N", "a">>, <<"a", "n", "d">>, <<"jung">>, <<"jung", "tan">>}

\* question texts of up to two words
QueryTexts ==
    {<<>>} \cup QueryWords \cup {w \o <<" ">> \o v : w, v \in QueryWords}

\* what a stored payload can hold: the keyword lines of the LLM's answer are kept
\* as they are (query_transformer.py lines 62-79)
PayloadKeywords == {<<"N", "a">>, <<"A", "N", "D">>, <<"da", "eum">>}
Payloads ==
    {NoPayload} \cup
    {[present |-> TRUE, keywords |-> k, negative_keywords |-> n] :
        k \in {<<>>} \cup {<<w>> : w \in PayloadKeywords}
                     \cup {<<w, v>> : w, v \in PayloadKeywords},
        n \in {<<>>, <<<<"da", "eum">>>>, <<<<"n", "a">>>>}}

FtsInit ==
    /\ JobsIdle /\ JudgeIdle /\ FeatureIdle /\ PipeIdle /\ ApplyIdle /\ CacheIdle /\ IndexIdle
    /\ QueryIdle
    /\ call_pc = "args"
    /\ call_args \in [query : QueryTexts, payload : Payloads,
                       variant : {"mixed_light", "orig_only", "hyde_only"},
                       negative_mode : {"stopwords", "none"}]
    /\ call_result = <<>>

\* the match string is built
ApplyFtsQuery ==
    /\ call_pc = "args"
    /\ call_result' = FtsQuery(call_args.query, call_args.payload, call_args.variant,
                               call_args.negative_mode)
    /\ call_pc' = "returned"
    /\ UNCHANGED call_args
    /\ UNCHANGED notCallVars

FtsSpec == FtsInit /\ [][ApplyFtsQuery]_vars

\* ============================================================ HyDE payloads
\* app/services/query_transformer.py, get_query_payload (lines 188-226), called by
\* the worker threads of scripts/build_queries.py (_process_question, lines 87-111;
\* ThreadPoolExecutor) and by search_chunks_bm25.  Each thread has its own session;
\* question_queries is the committed table.  The declaration of QuestionQuery is
\* not among the sources; the table is keyed by (question_id, prompt_version) as
\* the specification says ("Per (question, prompt_version)", "Cache keyed on
\* (question_id, prompt_version)").

\* _prompt_version(): HYDE_PROMPT_VERSION
PromptVersion == "hyde_v1"

\* QueryTransformation(keywords, lecture_style_query, negative_keywords)
Transformation(keywords, lecture_style_query, negative_keywords) ==
    [present |-> TRUE, keywords |-> keywords, lecture_style_query |-> lecture_style_query,
     negative_keywords |-> negative_keywords]

\* what the LLM answers for a question on two occasions: parse_transformation only
\* returns a payload with a lecture-style query
Generations ==
    {Transformation(<<"Na">>, "s1", <<>>), Transformation(<<>>, "s2", <<"x">>)}

\* json.dumps(list) and json.loads(text): the text is not the list
JsonDumps(list) == [json |-> list]
JsonLoads(str) == str.json

\* QuestionQuery(question_id=..., prompt_version=..., ...)            (lines 211-217)
QueryRow(question_id, prompt_version, generated) ==
    [question_id |-> question_id, prompt_version |-> prompt_version,
     lecture_style_query |-> generated.lecture_style_query,
     keywords_json |-> JsonDumps(generated.keywords),
     negative_keywords_json |-> JsonDumps(generated.negative_keywords)]

\* QuestionQuery.query.filter_by(question_id=..., prompt_version=...)
RowsFor(rows, question_id, prompt_version) ==
    SelectSeq(rows, LAMBDA r : r.question_id = question_id /\ r.prompt_version = prompt_version)

FetchCached_Mutant(rows, question_id, prompt_version) == NoTransformation

\* _fetch_cached(question_id, prompt_version)                      (lines 163-185)
FetchCached(rows, question_id, prompt_version) ==
    LET found == RowsFor(rows, question_id, prompt_version)
    IN IF found = <<>> THEN NoTransformation
       ELSE Transformation(JsonLoads(found[1].keywords_json), found[1].lecture_style_query,
                           JsonLoads(found[1].negative_keywords_json))

\* db.session.add(row); db.session.commit(): the table takes one row per
\* (question_id, prompt_version); a second one fails the commit, which is rolled
\* back (lines 218-224)
CommitRow(rows, row) ==
    IF RowsFor(rows, row.question_id, row.prompt_version) # <<>> THEN rows
    ELSE Append(rows, row)

\* thread t calls get_query_payload(question_id, text, allow_generate) and runs it
\* up to the LLM call                                              (lines 194-203)
GetQueryPayload(t, question_id, allow_generate) ==
    LET cached == FetchCached(question_queries, question_id, PromptVersion)
        returns == question_id = 0 \/ cached.present \/ ~allow_generate
    IN /\ qpc[t] \in {"idle", "returned"}
       /\ qcalls < MaxCalls
       /\ qcalls' = qcalls + 1
       /\ qargs' = [qargs EXCEPT ![t] = [question_id |-> question_id,
                                          allow_generate |-> allow_generate]]
       /\ qgen' = [qgen EXCEPT ![t] = NoTransformation]
       /\ qret' = [qret EXCEPT ![t] =
                     [call |-> qcalls + 1,
                      value |-> IF question_id # 0 /\ cached.present THEN cached
                                ELSE NoTransformation,
                      llm_called |-> FALSE]]
       /\ qpc' = [qpc EXCEPT ![t] = IF returns THEN "returned" ELSE "generate"]
       /\ UNCHANGED question_queries
       /\ UNCHANGED notQueryVars

\* generated = _call_gemini(question_text): a payload, or an exception after the
\* third attempt, on which None is returned                         (lines 205-209)
CallGemini(t, generated) ==
    /\ qpc[t] = "generate"
    /\ qgen' = [qgen EXCEPT ![t] = generated]
    /\ qret' = [qret EXCEPT ![t].llm_called = TRUE]
    /\ qpc' = [qpc EXCEPT ![t] = IF generated.present THEN "save" ELSE "returned"]
    /\ UNCHANGED <<question_queries, qargs, qcalls>>
    /\ UNCHANGED notQueryVars

\* the row is added and committed; the generated payload is returned either way
\*                                                                  (lines 211-226)
SaveRow(t) ==
    /\ qpc[t] = "save"
    /\ question_queries' = CommitRow(question_queries,
                                     QueryRow(qargs[t].question_id, PromptVersion, qgen[t]))
    /\ qret' = [qret EXCEPT ![t].value = qgen[t]]
    /\ qpc' = [qpc EXCEPT ![t] = "returned"]
    /\ UNCHANGED <<qargs, qgen, qcalls>>
    /\ UNCHANGED notQueryVars

\* the table is empty or holds a payload of question 1 for an older prompt version
QueryInit ==
    /\ JobsIdle /\ JudgeIdle /\ FeatureIdle /\ PipeIdle /\ ApplyIdle /\ CacheIdle /\ IndexIdle
    /\ CallIdle
    /\ question_queries \in {<<>>, <<QueryRow(1, "hyde_v0", Transformation(<<>>, "s0", <<>>))>>}
    /\ qpc = [t \in QueryThreads |-> "idle"]
    /\ qargs = [t \in QueryThreads |-> NoQueryArgs]
    /\ qgen = [t \in QueryThreads |-> NoTransformation]
    /\ qret = [t \in QueryThreads |-> NoReturn]
    /\ qcalls = 0

QueryNext ==
    \/ \E t \in QueryThreads, q \in 0..2, allow \in BOOLEAN : GetQueryPayload(t, q, allow)
    \/ \E t \in QueryThreads, g \in Generations \cup {NoTransformation} : CallGemini(t, g)
    \/ \E t \in QueryThreads : SaveRow(t)

QuerySpec == QueryInit /\ [][QueryNext]_vars

\* ================================================================== claims
Terminal == {STATUS_COMPLETED, STATUS_FAILED}

\* C1: in every committed state of a job row, processed = success + failed,
\* processed <= total, and a completed job has processed = total.
C1_JobAccounting ==
    \A j \in JobIds :
        /\ db[j].processed_count = db[j].success_count + db[j].failed_count
        /\ db[j].processed_count <= db[j].total_count
        /\ db[j].status = STATUS_COMPLETED => db[j].processed_count = db[j].total_count

\* a completed job that mixed a classified question and a missing one
C1_Witness ==
    \E j \in JobIds :
        /\ db[j].status = STATUS_COMPLETED
        /\ db[j].success_count = 1
        /\ db[j].failed_count = 1
        /\ Len(db[j].results) = 1

\* C2: the committed status only moves pending -> processing -> completed or
\* processing -> failed; completed_at changes exactly in the step that enters
\* completed or failed; after that step the committed row never changes.
C2_StatusMonotone ==
    [][\A j \in JobIds :
        /\ db'[j].status # db[j].status =>
              <<db[j].status, db'[j].status>> \in
                  {<<"none", STATUS_PENDING>>, <<STATUS_PENDING, STATUS_PROCESSING>>,
                   <<STATUS_PROCESSING, STATUS_COMPLETED>>,
                   <<STATUS_PROCESSING, STATUS_FAILED>>}
        /\ (db'[j].completed_at # db[j].completed_at) <=>
              (db[j].status \notin Terminal /\ db'[j].status \in Terminal)
        /\ db[j].status \in Terminal => db'[j] = db[j]]_vars

\* a job that has entered completed with its stamp and a non-empty payload
C2_Witness ==
    \E j \in JobIds :
        /\ db[j].status = STATUS_COMPLETED
        /\ db[j].completed_at # NULL
        /\ db[j].results # <<>>

\* C3 (as claimed): a worker that has stopped, by returning or by an exception
\* leaving _process_job, has left its job completed or failed, a failed job with
\* error_message and completed_at set; no job is left in processing.
C3_StoppedWorkerLeftJobTerminal ==
    \A j \in JobIds :
        pc[j] \in {"done", "crashed"} =>
            /\ db[j].status \in Terminal
            /\ db[j].status = STATUS_FAILED =>
                  db[j].error_message # NULL /\ db[j].completed_at # NULL

\* C4 (as claimed): every failed question has one error result (lecture_id null,
\* no_match true) and a completed job's payload holds exactly one result for
\* every input question id.
C4_OneResultPerQuestion ==
    \A j \in JobIds :
        /\ sess[j].failed_count =
              Cardinality({i \in 1..Len(results[j]) : results[j][i].error})
        /\ \A i \in 1..Len(results[j]) :
              results[j][i].error =>
                  results[j][i].lecture_id = NULL /\ results[j][i].no_match
        /\ db[j].status = STATUS_COMPLETED =>
              /\ Len(db[j].results) = Len(qids[j])
              /\ \A i \in 1..Len(qids[j]) : db[j].results[i].question_id = qids[j][i]

RECURSIVE IsSubsequence(_, _)
\* a can be obtained from b by deleting elements
IsSubsequence(a, b) ==
    IF a = <<>> THEN TRUE
    ELSE IF b = <<>> THEN FALSE
    ELSE IF Head(a) = Head(b) THEN IsSubsequence(Tail(a), Tail(b))
    ELSE IsSubsequence(a, Tail(b))

ResultIds(res) == [i \in 1..Len(res) |-> res[i].question_id]

\* C5: in the payload of a finished job the results' question ids are the input
\* question ids in input order with some possibly left out: nothing reordered,
\* nothing duplicated.
C5_ResultOrder ==
    \A j \in JobIds :
        db[j].status \in Terminal => IsSubsequence(ResultIds(db[j].results), qids[j])

\* a finished job with results for two different questions, one of them an error
C5_Witness ==
    \E j \in JobIds :
        /\ db[j].status \in Terminal
        /\ Len(db[j].results) = 2
        /\ db[j].results[1].question_id # db[j].results[2].question_id
        /\ db[j].results[1].error # db[j].results[2].error

\* C6 (as claimed): a poll taken while the worker is in the loop with k questions
\* finished observes processed_count >= k, and successive polls of a job never
\* observe a smaller processed_count.
C6_PollSeesFinishedQuestions ==
    [][\A j \in JobIds :
        lastPoll'[j] # lastPoll[j] =>
            /\ pc[j] = "loop" => lastPoll'[j] >= idx[j]
            /\ lastPoll[j] # NULL => lastPoll'[j] >= lastPoll[j]]_vars

\* C7: a job waiting in the executor queue still has the row start_classification_job
\* committed (pending, total = number of ids, counters 0, no results) and no question
\* of it has been touched; at most MaxWorkers = 2 jobs are executing.
C7_PoolBound ==
    /\ Cardinality(Running) <= 2
    /\ \A j \in JobIds :
          pc[j] = "queued" =>
              /\ db[j].status = STATUS_PENDING
              /\ db[j].total_count = Len(qids[j])
              /\ db[j].processed_count = 0
              /\ db[j].success_count = 0
              /\ db[j].failed_count = 0
              /\ db[j].results = <<>>
              /\ idx[j] = 0

\* both pool threads are busy, one has already finished a question, and a third
\* job with a question waits
C7_Witness ==
    /\ Cardinality(Running) = 2
    /\ \E k \in Running : db[k].processed_count > 0
    /\ \E j \in JobIds : pc[j] = "queued" /\ db[j].total_count = 1

\* C8 (as claimed): every decision classify_single returns has
\* no_match <=> lecture_id is null <=> evidence is empty.
C8_NoMatchCoherence ==
    jpc = "returned" =>
        /\ decision.no_match <=> decision.lecture_id = NULL
        /\ decision.lecture_id = NULL <=> decision.evidence = <<>>

\* C9: a returned decision's non-null lecture_id is a candidate id, and when the
\* LLM named a lecture that is no candidate the decision is lecture_id null,
\* no_match true, no evidence, with the confidence the LLM gave.
C9_LectureIsCandidate ==
    jpc = "returned" =>
        /\ decision.lecture_id # NULL => decision.lecture_id \in CandidateIds(candidates)
        /\ (llm.kind \in {"json", "scraped"} /\ llm.lecture_id # NULL
                /\ llm.lecture_id \notin CandidateIds(candidates)) =>
              /\ decision.lecture_id = NULL
              /\ decision.no_match
              /\ decision.evidence = <<>>
              /\ llm.confidence # NULL => decision.confidence = llm.confidence

\* the LLM chose lecture 5 with confidence 0.9 and no_match false, and 5 is no candidate
C9_Witness ==
    /\ jpc = "returned"
    /\ llm.kind = "json"
    /\ llm.lecture_id = 5
    /\ llm.no_match = "false"
    /\ llm.confidence = 9
    /\ decision.lecture_id = NULL
    /\ decision.confidence = 9

\* C10: every evidence item of a decision for lecture L has the chunk id and the
\* pages of one of candidate L's evidence items, and its quote is a non-empty
\* substring of that item's snippet: the whole snippet or the trimmed quote of an
\* LLM item for that chunk; and every trimmed, non-empty LLM quote for L that occurs
\* in its chunk's snippet is kept as it is.
C10_EvidenceFromCandidate ==
    (jpc = "returned" /\ decision.lecture_id # NULL
        /\ SelectedIndex(decision.lecture_id, candidates) # 0) =>
        LET L == decision.lecture_id
            given == candidates[SelectedIndex(L, candidates)].evidence
        IN /\ \A n \in 1..Len(decision.evidence) :
                \E k \in 1..Len(given) :
                    /\ decision.evidence[n].chunk_id = given[k].chunk_id
                    /\ decision.evidence[n].page_start = given[k].page_start
                    /\ decision.evidence[n].page_end = given[k].page_end
                    /\ decision.evidence[n].quote # <<>>
                    /\ IsSubstring(decision.evidence[n].quote, given[k].snippet)
                    /\ \/ decision.evidence[n].quote = given[k].snippet
                       \/ \E m \in 1..Len(llm.evidence) :
                            /\ llm.evidence[m].chunk_id = given[k].chunk_id
                            /\ Strip(llm.evidence[m].quote) = decision.evidence[n].quote
           /\ \A m \in 1..Len(llm.evidence), k \in 1..Len(given) :
                (/\ llm.kind = "json"
                 /\ llm.evidence[m].lecture_id \in {NULL, L}
                 /\ llm.evidence[m].chunk_id = given[k].chunk_id
                 /\ Strip(llm.evidence[m].quote) # <<>>
                 /\ IsSubstring(Strip(llm.evidence[m].quote), given[k].snippet)) =>
                    \E n \in 1..Len(decision.evidence) :
                        /\ decision.evidence[n].chunk_id = given[k].chunk_id
                        /\ decision.evidence[n].quote = Strip(llm.evidence[m].quote)

\* a decision for lecture 7 with two evidence items for chunk 1 (pages 12-13): the
\* LLM's trimmed quote "a", and the whole snippet "ab" for a quote that does not occur
C10_Witness ==
    /\ jpc = "returned"
    /\ decision.lecture_id = 7
    /\ Len(decision.evidence) = 2
    /\ decision.evidence[1].quote = Str_a
    /\ decision.evidence[2].quote = Str_ab
    /\ decision.evidence[1].page_start = 12
    /\ llm.evidence[1].quote = Str_pad_a
    /\ llm.evidence[2].quote = Str_c

\* C11 (as claimed): when the response text does not parse as a JSON object,
\* classify_single returns lecture_id null, no_match true, confidence 0, no evidence
\* and a reason that starts with "JSON parse error".
C11_ParseFailureIsNoMatch ==
    (jpc = "returned" /\ llm.kind = "scraped") =>
        /\ decision.lecture_id = NULL
        /\ decision.no_match
        /\ decision.confidence = 0
        /\ decision.evidence = <<>>
        /\ decision.reason = JSONParseErrorReason

\* C12: auto_confirm_v2 returns true exactly when the BM25 and hybrid top-1 chunk
\* ids are both non-null and equal, embed_margin is defined and >= delta, and
\* hybrid_top1_bm25_rank is defined and <= max_bm25_rank; the call changes nothing
\* but its result.
C12_AutoConfirmExact ==
    fpc = "returned" =>
        (auto_confirm <=>
            /\ features.bm25_top1_chunk_id # NULL
            /\ features.hybrid_top1_chunk_id # NULL
            /\ features.bm25_top1_chunk_id = features.hybrid_top1_chunk_id
            /\ features.embed_margin # NULL
            /\ features.embed_margin >= delta
            /\ features.hybrid_top1_bm25_rank # NULL
            /\ features.hybrid_top1_bm25_rank <= max_bm25_rank)

\* auto-confirm granted with the margin exactly at delta and the rank exactly at
\* the limit
C12_Witness ==
    /\ fpc = "returned"
    /\ auto_confirm
    /\ features.embed_margin = delta
    /\ delta > 0
    /\ features.hybrid_top1_bm25_rank = max_bm25_rank
    /\ max_bm25_rank > 1

\* C13 (as claimed): when auto_confirm_v2 holds for a question's retrieval features
\* under the configured delta and rank limit, classifying the question, through
\* classify_single_question or in the batch worker, ends with a decision, makes no
\* LLM call, and the decision is the lecture of the hybrid top-1 chunk with
\* confidence 1.0 and model_name "auto_confirm_v2".
C13_AutoConfirmSkipsLLM ==
    (/\ AutoConfirmV2(features, AUTO_CONFIRM_V2_DELTA, AUTO_CONFIRM_V2_MAX_BM25_RANK)
     /\ \/ ppc = "raised"
        \/ ppc = "worker" /\ jpc \in {"returned", "raised"}) =>
        /\ ppc = "worker"
        /\ jpc = "returned"
        /\ attempt = 0
        /\ decision.lecture_id = features.hybrid_top1_lecture_id
        /\ decision.confidence = 10
        /\ decision.model_name = "auto_confirm_v2"

\* the result job_id holds for question qid names no lecture: no_match or null
NoSuggestion(job_id, qid) ==
    LET res == JobPayload(job_id)
        k == ResultIndex(res, qid)
    IN k # 0 /\ (res[k].no_match \/ res[k].lecture_id = NULL)

\* the number of entries of question_ids for which job_id names a lecture
Suggested(job_id, question_ids) ==
    Cardinality({i \in 1..Len(question_ids) :
                    /\ ResultIndex(JobPayload(job_id), question_ids[i]) # 0
                    /\ ~NoSuggestion(job_id, question_ids[i])})

\* C14: an apply call, in any mode, leaves lecture_id and is_classified of a question
\* whose result is no_match or has a null lecture_id unchanged, does not set its
\* status to ai_confirmed, and does not count it in the returned count.
C14_NoMatchNeverCommitted ==
    [][\A q \in ApplyQuestionIds :
        NoSuggestion(last_apply'.job_id, q) =>
            /\ question'[q].lecture_id = question[q].lecture_id
            /\ question'[q].is_classified = question[q].is_classified
            /\ question'[q].classification_status = "ai_confirmed"
                  => question[q].classification_status = "ai_confirmed"
            /\ \A i \in 1..Len(last_apply'.committed) : last_apply'.committed[i] # q
            /\ last_apply'.applied_count
                  <= Suggested(last_apply'.job_id, last_apply'.question_ids)]_vars

\* job 1 (no_match for question 2) was applied to questions 1 and 2 with mode all:
\* question 1 was committed and counted, question 2 kept its manual lecture 7
C14_Witness ==
    /\ last_apply.job_id = 1
    /\ last_apply.question_ids = <<1, 2>>
    /\ last_apply.apply_mode = "all"
    /\ last_apply.applied_count = 1
    /\ question[2].lecture_id = 7
    /\ question[2].is_classified
    /\ question[2].classification_status = "manual"

\* what the claim compares of an evidence row
RowContent(m) ==
    [question_id |-> m.question_id, chunk_id |-> m.chunk_id, page_start |-> m.page_start,
     page_end |-> m.page_end, snippet |-> m.snippet, is_primary |-> m.is_primary]

EvidenceContent(ms) == [i \in 1..Len(ms) |-> RowContent(ms[i])]

\* C15: with apply_mode = all, the same call made again right after the first leaves
\* every question's lecture_id, is_classified and classification_status, and the
\* evidence rows (chunk, page range, snippet, is_primary, in insertion order), as
\* the first call left them.
C15_ApplyAllIdempotent ==
    [][(last_apply'.repeated /\ ~last_apply.repeated /\ last_apply'.apply_mode = "all") =>
          /\ question' = question
          /\ EvidenceContent(matches') = EvidenceContent(matches)]_vars

\* job 1 applied twice to questions 1 and 2 with mode all: question 1 is confirmed
\* for lecture 7 and has exactly two evidence rows, the first one primary
C15_Witness ==
    /\ last_apply.repeated
    /\ last_apply.apply_mode = "all"
    /\ last_apply.job_id = 1
    /\ last_apply.question_ids = <<1, 2>>
    /\ question[1] = [lecture_id |-> 7, is_classified |-> TRUE,
                      classification_status |-> "ai_confirmed"]
    /\ Len(SelectSeq(matches, LAMBDA m : m.question_id = 1)) = 2
    /\ SelectSeq(matches, LAMBDA m : m.question_id = 1)[1].is_primary
    /\ ~SelectSeq(matches, LAMBDA m : m.question_id = 1)[2].is_primary

\* the lecture job_id suggests for question qid: NULL when there is no result, no
\* lecture or no_match
SuggestedLecture(job_id, qid) ==
    LET res == JobPayload(job_id)
        k == ResultIndex(res, qid)
    IN IF k = 0 \/ NoSuggestion(job_id, qid) THEN NULL ELSE res[k].lecture_id

\* the entry at position i of ids is the first entry for its question
FirstEntry(ids, i) == \A k \in 1..(i - 1) : ids[k] # ids[i]

\* the parts of C16 that hold as claimed: under only_unclassified a classified
\* question keeps its lecture_id; under only_changes a question whose suggested
\* lecture is its current one or null keeps its lecture_id and is not counted
C16_SkipModes ==
    \A q \in ApplyQuestionIds :
        /\ (last_apply'.apply_mode = "only_unclassified" /\ question[q].is_classified)
              => question'[q].lecture_id = question[q].lecture_id
        /\ (/\ last_apply'.apply_mode = "only_changes"
            /\ \/ SuggestedLecture(last_apply'.job_id, q) = NULL
               \/ SuggestedLecture(last_apply'.job_id, q) = question[q].lecture_id)
              => /\ question'[q].lecture_id = question[q].lecture_id
                 /\ \A i \in 1..Len(last_apply'.committed) : last_apply'.committed[i] # q

RowsOf(q) == SelectSeq(matches, LAMBDA m : m.question_id = q)

\* C17: after an apply call, whatever applies came before it, every question has at
\* most one primary evidence row per job, and when it has evidence rows, written by
\* an apply, exactly the first row written is primary.
C17_OnePrimary ==
    \A q \in ApplyQuestionIds :
      last_apply # NoApply =>
        /\ \A j \in ApplyJobIds :
              Cardinality({i \in 1..Len(RowsOf(q)) :
                              RowsOf(q)[i].job_id = j /\ RowsOf(q)[i].is_primary}) <= 1
        /\ RowsOf(q) # <<>> =>
              /\ RowsOf(q)[1].is_primary
              /\ \A i \in 2..Len(RowsOf(q)) : ~RowsOf(q)[i].is_primary

\* job 1 was applied to question 1 under only_changes and wrote two rows, the first
\* primary, while question 2 still has the row an earlier apply of job 3 wrote
C17_Witness ==
    /\ last_apply.job_id = 1
    /\ last_apply.apply_mode = "only_changes"
    /\ last_apply.committed = <<1>>
    /\ Len(RowsOf(1)) = 2
    /\ RowsOf(1)[1].job_id = 1
    /\ RowsOf(1)[1].is_primary
    /\ ~RowsOf(1)[2].is_primary
    /\ Len(RowsOf(2)) = 1
    /\ RowsOf(2)[1].job_id = 3

\* the last set() call made with arguments a, NoOp when there was none
LastSet(a) ==
    LET on == SelectSeq(cache_sets, LAMBDA c : c.args = a)
    IN IF on = <<>> THEN NoOp ELSE on[Len(on)]

\* the entry get(a) returned after the last set(a, r) is the one that set() wrote
GetReturnsLastSet ==
    \A a \in CacheArgs :
        (cache_got[a] # NotGot /\ LastSet(a) # NoOp) =>
            cache_got[a] = CacheEntry(LastSet(a).result, LastSet(a).cached_at)

\* C18: used from one thread, get(q, h, m) after set(q, h, m, r) returns the entry
\* with result r; after two sets on the same key it returns the entry of the second,
\* whose cached_at is not earlier than the first's; a get repeated with no set on that
\* key in between returns the same entry again; and a set on one key leaves the entry
\* stored under every other key as it was.
C18_CacheGetSet ==
    [][/\ GetReturnsLastSet'
       /\ \A i \in 1..Len(cache_sets') : \A j \in i..Len(cache_sets') :
             cache_sets'[i].cached_at <= cache_sets'[j].cached_at
       /\ \A a \in CacheArgs :
             (cache_got[a] # NotGot /\ cache_got'[a] # NotGot) => cache_got'[a] = cache_got[a]
       /\ cache_sets' # cache_sets =>
             \A b \in CacheArgs \ {cache_sets'[Len(cache_sets')].args} :
                 cache_data'[KeyOf(b)] = Loaded(cache_loaded, cache_data, cache_file)[KeyOf(b)]
      ]_vars

\* two sets were made with the same arguments and different results, the second at a
\* later clock reading; a get returned the second entry, while the entry loaded from
\* the file under another key is still returned
C18_Witness ==
    /\ Len(cache_sets) = 2
    /\ tpc = [t \in CacheThreads |-> "idle"]
    /\ cache_sets[1].args = cache_sets[2].args
    /\ cache_sets[1].result = "A"
    /\ cache_sets[2].result = "B"
    /\ cache_sets[1].cached_at < cache_sets[2].cached_at
    /\ cache_got[cache_sets[2].args] = CacheEntry("B", cache_sets[2].cached_at)
    /\ \E b \in CacheArgs \ {cache_sets[2].args} : cache_got[b] = CacheEntry("A", 0)

\* C19: when every thread has returned, each key written by a set() holds the entry
\* of some set() on that key, and each entry loaded from the file and not overwritten
\* is still in the cache.
C19_NoLostSet ==
    (\A t \in CacheThreads : tpc[t] = "done") =>
        \A a \in CacheArgs :
            IF LastSet(a) # NoOp
            THEN \E i \in 1..Len(cache_sets) :
                    /\ cache_sets[i].args = a
                    /\ cache_data[KeyOf(a)] = CacheEntry(cache_sets[i].result, cache_sets[i].cached_at)
            ELSE cache_data[KeyOf(a)] = ParsedFile(cache_file)[KeyOf(a)]

\* C20: the index load is exclusive: the embedding rows of one model and dimension
\* are read and decoded by at most one of the threads that ask for them, and what a
\* thread reads from the index after its load() returned is a set matrix and a
\* metadata list built by the same read, with the same number of rows.
C20_ExclusiveLoad ==
    /\ \A i, j \in 1..Len(index_reads) :
          index_reads[i].args = index_reads[j].args => i = j
    /\ \A t \in IndexThreads :
          /\ ipc[t] \in {"ranked", "done"} => iobs[t].embeddings # NoMatrix
          /\ iobs[t].seen =>
                /\ iobs[t].embeddings.load = iobs[t].meta.load
                /\ iobs[t].embeddings.len = iobs[t].meta.len

\* the 1-based place of chunk c in list l, 0 when l does not contain it
PlaceIn(l, c) == IF \E i \in 1..Len(l) : l[i] = c THEN CHOOSE i \in 1..Len(l) : l[i] = c ELSE 0

\* the sum of 1 / (K + rank + 1) over the lists that contain chunk c
FusedScore(c) ==
    LET a == PlaceIn(call_args.bm25_chunks, c)
        b == PlaceIn(call_args.emb_chunks, c)
        K == call_args.rrf_k
    IN IF a > 0 /\ b > 0 THEN [num |-> (K + a) + (K + b), den |-> (K + a) * (K + b)]
       ELSE IF a > 0 THEN [num |-> 1, den |-> K + a]
       ELSE [num |-> 1, den |-> K + b]

\* lexical list first, then the dense list
FirstAppearance(c) ==
    IF PlaceIn(call_args.bm25_chunks, c) > 0 THEN PlaceIn(call_args.bm25_chunks, c)
    ELSE Len(call_args.bm25_chunks) + PlaceIn(call_args.emb_chunks, c)

\* C21: every returned hit carries the sum of 1/(K + rank + 1) over the lists that
\* contain its chunk; hits come in descending fused score, ties in order of first
\* appearance; a chunk left out by top_n scores no higher than any returned hit; a
\* chunk of both lists scores strictly higher than with either rank alone; and lexical
\* A, B, C with dense B, D, A and K = 60 give B, A, D, C.
C21_RrfFusion ==
    call_pc = "returned" =>
        LET hits == call_result
            both == call_args.bm25_chunks # <<>> /\ call_args.emb_chunks # <<>>
        IN /\ \A i \in 1..Len(hits) :
                 /\ hits[i].num * FusedScore(hits[i].chunk_id).den
                        = FusedScore(hits[i].chunk_id).num * hits[i].den
                 /\ \A j \in (i + 1)..Len(hits) :
                       /\ ~FracLess(hits[i], hits[j])
                       /\ ~FracLess(hits[j], hits[i]) =>
                             FirstAppearance(hits[i].chunk_id) < FirstAppearance(hits[j].chunk_id)
                 /\ (PlaceIn(call_args.bm25_chunks, hits[i].chunk_id) > 0
                        /\ PlaceIn(call_args.emb_chunks, hits[i].chunk_id) > 0) =>
                       /\ FracLess([num |-> 1, den |-> call_args.rrf_k
                                        + PlaceIn(call_args.bm25_chunks, hits[i].chunk_id)], hits[i])
                       /\ FracLess([num |-> 1, den |-> call_args.rrf_k
                                        + PlaceIn(call_args.emb_chunks, hits[i].chunk_id)], hits[i])
           /\ both =>
                 \A c \in RrfChunkIds :
                     (/\ PlaceIn(call_args.bm25_chunks, c) + PlaceIn(call_args.emb_chunks, c) > 0
                      /\ \A i \in 1..Len(hits) : hits[i].chunk_id # c) =>
                         /\ Len(hits) = call_args.top_n
                         /\ \A i \in 1..Len(hits) : ~FracLess(hits[i], FusedScore(c))
           /\ (call_args = [bm25_chunks |-> <<1, 2, 3>>, emb_chunks |-> <<2, 4, 1>>,
                            rrf_k |-> 60, top_n |-> 80]) =>
                 [i \in 1..Len(hits) |-> hits[i].chunk_id] = <<2, 1, 4, 3>>

\* the lists of the example were fused: B = 1/62 + 1/61 comes first and C = 1/63 last
C21_Witness ==
    /\ call_pc = "returned"
    /\ call_args = [bm25_chunks |-> <<1, 2, 3>>, emb_chunks |-> <<2, 4, 1>>,
                    rrf_k |-> 60, top_n |-> 80]
    /\ Len(call_result) = 4
    /\ call_result[1] = [chunk_id |-> 2, num |-> 123, den |-> 3782]
    /\ call_result[4] = [chunk_id |-> 3, num |-> 1, den |-> 63]

\* the lecture set the request's scope stands for: the lecture_ids list when the
\* request has one (also an empty one), else the lectures of its block
RequestedLectures(scope) ==
    IF scope.lecture_ids.given THEN scope.lecture_ids.ids
    ELSE LecturesOfBlock(scope.block_id)

Restricted(scope) == scope.lecture_ids.given \/ scope.block_id # NULL

\* C22: when the scope of the request stands for an empty lecture set, the question
\* gets an empty candidate list; when it stands for a non-empty set S, every
\* candidate's lecture is in S.
C22_ScopeRestrictsCandidates ==
    (call_pc = "returned" /\ Restricted(call_args.scope)) =>
        \A i \in 1..Len(call_result.candidates) :
            \E j \in 1..Len(RequestedLectures(call_args.scope)) :
                RequestedLectures(call_args.scope)[j] = call_result.candidates[i].id

\* C23: under each retrieval mode, when the scoped lexical search has a hit in an
\* existing lecture, the candidate list is not empty.
C23_CandidatesUnderEachMode ==
    call_pc = "returned" =>
        ((\E i \in 1..Len(SearchChunksBm25(call_args.matching, call_result.lecture_ids)) :
              SearchChunksBm25(call_args.matching, call_result.lecture_ids)[i].lecture_id
                  \in LectureIds)
            => call_result.candidates # <<>>)

\* C24: one classify_single call makes at most 3 LLM attempts, none when the
\* candidate list is empty, a further one only after the previous attempt raised and
\* none after an attempt gave a decision; when the call fails all 3 attempts have
\* raised, and the worker then records an error result with no_match true and counts
\* the question as failed.
C24_AtMostThreeAttempts ==
    [][/\ attempt' <= 3
       /\ candidates' = <<>> => attempt' = 0
       /\ attempt' # attempt =>
             /\ attempt' = attempt + 1
             /\ jpc = "calling"
             /\ attempt > 0 => llm.kind = "raise"
       /\ jpc' = "raised" => (attempt' = 3 /\ llm'.kind = "raise")
       /\ (jpc' = "raised" /\ idx'[1] = 1) =>
             /\ Len(results'[1]) = 1
             /\ results'[1][1].no_match
             /\ results'[1][1].error
             /\ results'[1][1].lecture_id = NULL
             /\ db'[1].failed_count = 1
             /\ db'[1].success_count = 0
             /\ db'[1].processed_count = 1
      ]_vars

\* three attempts raised and the worker recorded the error result
C24_Witness ==
    /\ jpc = "raised"
    /\ attempt = 3
    /\ idx[1] = 1
    /\ results[1] = <<ErrorResult(1)>>
    /\ db[1].failed_count = 1

\* C30: an apply call leaves the evidence rows of every question for which it
\* commits no assignment as they were.
C30_EvidenceKeptWithoutAssignment ==
    [][\A q \in ApplyQuestionIds :
          (\A i \in 1..Len(last_apply'.committed) : last_apply'.committed[i] # q) =>
              SelectSeq(matches', LAMBDA m : m.question_id = q) = RowsOf(q)]_vars

C26_CompleteSnapshot ==
    cache_fs.path.exists => IsSnapshot(cache_fs.path.blocks)

\* C27: the parent_text of every expanded candidate has at most parent_max_chars
\* characters, also when the seed chunk alone is longer than the budget.
C27_ParentTextWithinBudget ==
    (call_pc = "returned" /\ call_result.expanded) =>
        Len(call_result.parent_text) <= call_args.max_chars

\* C28: no term of the match string is an FTS reserved operator (in any letter case)
\* or a configured stop word, for the plain question text and for every HyDE variant
\* and negative mode.
C28_NoReservedOrStopTerm ==
    call_pc = "returned" =>
        \A i \in 1..Len(call_result) :
            /\ call_result[i].quoted \/ StrUpper(call_result[i].token) \notin FtsReserved
            /\ call_result[i].token \notin Bm25Stopwords

====
